---- MODULE Spec2Model ----
(***************************************************************************)
(* Terminal output processing: CircularBuffer, the two OutputProcessor     *)
(* variants (line mode and character mode) and TerminalProcess.            *)
(*                                                                         *)
(* A JavaScript string is a sequence of characters; a character is a       *)
(* one-character TLA+ string for printable ASCII and "\n", and a named     *)
(* token ("ESC", "BEL", "CSI", "U+280B", ...) for the others.              *)
(***************************************************************************)
EXTENDS Integers, Sequences, FiniteSets, TLC

VARIABLES
    cb,          \* SpecCB: the CircularBuffer object
    cbAdded,     \* SpecCB, history: the items added since construction or the last clear()
    cbResult,    \* SpecCB: the value returned by the last getRecent(n) call, with its n
    variant,     \* SpecProc: which OutputProcessor class was constructed, "line" or "char"
    proc,        \* SpecProc: the OutputProcessor object
    fresh,       \* SpecProc, twin: a processor constructed anew at the last clear() and fed the same lines
    calls,       \* SpecProc, history: the processLine calls since construction or the last clear()
    cleared,     \* SpecProc, history: clear() has been called
    nCalls,      \* SpecProc, history: the number of processLine calls since construction
    feed,        \* SpecProc: the lines the caller may pass to processLine
    tp,          \* SpecTP: the fields of the TerminalProcess object
    run,         \* SpecTP: where run() stands, its arguments and local variables, and (since) how
                 \* many events there were when it began
    lineListeners, \* SpecTP: a listener is registered for the 'line' event
    events,      \* SpecTP, history: the emit calls since construction
    fed,         \* SpecTP, history: the processLine calls since the last run() began
    yielded,     \* SpecTP, history: the chunks the stream has yielded since the last run() began
    tpSteps,     \* SpecTP, history: how many calls and stream steps there have been
    unretrieved, \* SpecTP: the value returned by the last getUnretrievedOutput() call
    stream       \* SpecTP: the chunks a stream may yield

cbVars == <<cb, cbAdded, cbResult>>

procVars == <<variant, proc, fresh, calls, cleared, nCalls, feed>>

tpVars == <<tp, run, lineListeners, events, fed, yielded, tpSteps, unretrieved, stream>>

vars == <<cbVars, procVars, tpVars>>

\* the value of an array slot or an optional field that was never assigned
Undefined == <<"<undefined>">>

Min(a, b) == IF a <= b THEN a ELSE b

Max(a, b) == IF a >= b THEN a ELSE b

Range(s) == {s[i] : i \in 1..Len(s)}

\* the last n elements of s (all of s when n >= Len(s))
LastN(s, n) == SubSeq(s, Len(s) - Min(n, Len(s)) + 1, Len(s))

(***************************************************************************)
(* Characters and strings                                                  *)
(***************************************************************************)

Digits == {"0", "1", "2", "3", "4", "5", "6", "7", "8", "9"}

UpperLetters == <<"A", "B", "C", "D", "E", "F", "G", "H", "I", "J", "K", "L", "M",
                  "N", "O", "P", "Q", "R", "S", "T", "U", "V", "W", "X", "Y", "Z">>

LowerLetters == <<"a", "b", "c", "d", "e", "f", "g", "h", "i", "j", "k", "l", "m",
                  "n", "o", "p", "q", "r", "s", "t", "u", "v", "w", "x", "y", "z">>

\* case folding of a /.../i match against an ASCII pattern: only A-Z fold
ToLower(c) ==
    IF \E k \in 1..26 : UpperLetters[k] = c
    THEN LowerLetters[CHOOSE k \in 1..26 : UpperLetters[k] = c]
    ELSE c

LowerCase(s) == [i \in 1..Len(s) |-> ToLower(s[i])]

\* sub occurs in s starting at position i
OccursAt(s, sub, i) ==
    /\ i >= 1
    /\ i + Len(sub) - 1 <= Len(s)
    /\ \A k \in 1..Len(sub) : s[i + k - 1] = sub[k]

\* String.prototype.includes
Includes(s, sub) == \E i \in 1..(Len(s) + 1) : OccursAt(s, sub, i)

\* the characters a regular expression's "." does not match
LineTerminators == {"\n", "\r", "U+2028", "U+2029"}

\* [a-zA-Z0-9]
Alphanumerics == Digits \cup Range(UpperLetters) \cup Range(LowerLetters)

\* the printable ASCII characters that are not letters or digits (GRAVE is U+0060)
Punctuation ==
    {" ", "!", "\"", "#", "$", "%", "&", "'", "(", ")", "*", "+", ",", "-", ".", "/",
     ":", ";", "<", "=", ">", "?", "@", "[", "\\", "]", "^", "_", "GRAVE", "{", "|", "}", "~"}

\* [\x20-\x7E]
Printable == Alphanumerics \cup Punctuation

\* the characters trim(), trimEnd() and \s take for white space
Whitespace == {" ", "\t", "\n", "\r", "\f", "VT", "U+00A0", "U+FEFF", "U+2028", "U+2029"}

\* the least element of a set of positions, 0 for the empty set
FirstOrZero(S) == IF S = {} THEN 0 ELSE CHOOSE x \in S : \A y \in S : x <= y

\* the greatest element of a set of positions, 0 for the empty set
LastOrZero(S) == IF S = {} THEN 0 ELSE CHOOSE x \in S : \A y \in S : y <= x

\* s from position m on; nothing when m is 0
DropTo(s, m) == IF m = 0 THEN <<>> ELSE SubSeq(s, m, Len(s))

\* s before position m; all of s when m is 0
CutAt(s, m) == IF m = 0 THEN s ELSE SubSeq(s, 1, m - 1)

\* String.prototype.trimEnd
TrimEnd(s) == SubSeq(s, 1, LastOrZero({i \in 1..Len(s) : s[i] \notin Whitespace}))

\* String.prototype.trimStart
TrimStart(s) == DropTo(s, FirstOrZero({i \in 1..Len(s) : s[i] \notin Whitespace}))

\* String.prototype.trim
Trim(s) == TrimEnd(TrimStart(s))

\* String.prototype.indexOf("\n"), 1-based; 0 when there is none
IndexOfNewline(s) == FirstOrZero({i \in 1..Len(s) : s[i] = "\n"})

\* String.prototype.split("\n"); n is the position of the first newline
RECURSIVE SplitLines(_)
SplitAt(s, n) ==
    IF n = 0 THEN <<s>> ELSE <<SubSeq(s, 1, n - 1)>> \o SplitLines(SubSeq(s, n + 1, Len(s)))

SplitLines(s) == SplitAt(s, IndexOfNewline(s))

\* Array.prototype.join("\n")
RECURSIVE JoinLines(_)
JoinLines(lines) ==
    IF lines = <<>> THEN <<>>
    ELSE IF Len(lines) = 1 THEN lines[1]
    ELSE lines[1] \o <<"\n">> \o JoinLines(Tail(lines))

\* s without the characters of the set
Without(s, set) == SelectSeq(s, LAMBDA c : c \notin set)

(***************************************************************************)
(* stripAnsi removes every match of the escape-sequence expression: an     *)
(* introducer (ESC or CSI), any number of prefix characters from the class *)
(* "[()#;?", optionally a number of 1 to 4 digits followed by any number   *)
(* of groups (";" and 0 to 4 digits), and one final character.             *)
(* The operators follow the backtracking order of the expression: every    *)
(* quantifier is greedy and gives characters back one at a time.  Each     *)
(* returns the position after the match, or 0 when there is no match.      *)
(***************************************************************************)

AnsiIntroducers == {"ESC", "CSI"}

AnsiPrefixClass == {"[", "(", ")", "#", ";", "?"}

AnsiFinalClass ==
    Digits
    \cup {"A", "B", "C", "D", "E", "F", "G", "H", "I", "J", "K", "L", "M", "N", "O"}
    \cup {"R", "Z", "c"}
    \cup {"f", "g", "h", "i", "j", "k", "l", "m", "n"}
    \cup {"q", "r", "y", "=", ">", "<"}

\* how many of the characters of s from position j on are digits, at most cap
RECURSIVE DigitRun(_, _, _)
DigitRun(s, j, cap) ==
    IF cap = 0 \/ j > Len(s) \/ s[j] \notin Digits THEN 0
    ELSE 1 + DigitRun(s, j + 1, cap - 1)

\* [0-9A-ORZcf-nqry=><]
AnsiFinal(s, j) == IF j <= Len(s) /\ s[j] \in AnsiFinalClass THEN j + 1 ELSE 0

\* the first alternative where it matches (r is not 0), and the second otherwise
OrElse(r, alternative) == IF r # 0 THEN r ELSE alternative

\* (?:;[0-9]{0,4})* and the final character, from position j
RECURSIVE AnsiParams(_, _)
RECURSIVE AnsiParamsTry(_, _, _)
AnsiParamsTry(s, j, m) ==
    OrElse(AnsiParams(s, j + 1 + m), IF m > 0 THEN AnsiParamsTry(s, j, m - 1) ELSE 0)

AnsiParams(s, j) ==
    IF j <= Len(s) /\ s[j] = ";"
    THEN OrElse(AnsiParamsTry(s, j, DigitRun(s, j + 1, 4)), AnsiFinal(s, j))
    ELSE AnsiFinal(s, j)

\* [0-9]{1,4} with k digits taken, then the rest
RECURSIVE AnsiNumberTry(_, _, _)
AnsiNumberTry(s, j, k) ==
    IF k = 0 THEN 0 ELSE OrElse(AnsiParams(s, j + k), AnsiNumberTry(s, j, k - 1))

\* (?:[0-9]{1,4}(?:;[0-9]{0,4})*)? and the final character
AnsiOptional(s, j) == OrElse(AnsiNumberTry(s, j, DigitRun(s, j, 4)), AnsiFinal(s, j))

\* [[()#;?]* and the rest
RECURSIVE AnsiPrefix(_, _)
AnsiPrefix(s, j) ==
    IF j <= Len(s) /\ s[j] \in AnsiPrefixClass
    THEN OrElse(AnsiPrefix(s, j + 1), AnsiOptional(s, j))
    ELSE AnsiOptional(s, j)

AnsiMatch(s, i) == IF s[i] \in AnsiIntroducers THEN AnsiPrefix(s, i + 1) ELSE 0

\* the text from position i on with every match removed; m is the start of the leftmost match
RECURSIVE StripAnsiFrom(_, _)
StripAnsiStep(s, i, m) ==
    IF m = 0 THEN SubSeq(s, i, Len(s))
    ELSE SubSeq(s, i, m - 1) \o StripAnsiFrom(s, AnsiMatch(s, m))

StripAnsiFrom(s, i) == StripAnsiStep(s, i, FirstOrZero({j \in i..Len(s) : AnsiMatch(s, j) # 0}))

stripAnsi(str) == StripAnsiFrom(str, 1)

(***************************************************************************)
(* Important lines: /error|warning|fail|exception|critical/i               *)
(***************************************************************************)

importantPatterns ==
    { <<"e", "r", "r", "o", "r">>,
      <<"w", "a", "r", "n", "i", "n", "g">>,
      <<"f", "a", "i", "l">>,
      <<"e", "x", "c", "e", "p", "t", "i", "o", "n">>,
      <<"c", "r", "i", "t", "i", "c", "a", "l">> }

isImportantLine(line) == \E pattern \in importantPatterns : Includes(LowerCase(line), pattern)

(***************************************************************************)
(* CircularBuffer                                                          *)
(***************************************************************************)

\* new CircularBuffer(maxSize), for maxSize > 0
CB_new(maxSize) ==
    [buffer |-> [i \in 0..(maxSize - 1) |-> Undefined], head |-> 0, size |-> 0, maxSize |-> maxSize]

\* add that counts every line, the overwritten ones too
CB_add_CountAll(b, line) ==
    [b EXCEPT !.buffer = [b.buffer EXCEPT ![b.head] = line],
              !.head = (b.head + 1) % b.maxSize,
              !.size = b.size + 1]

CB_add(b, line) ==
    [b EXCEPT !.buffer = [b.buffer EXCEPT ![b.head] = line],
              !.head = (b.head + 1) % b.maxSize,
              !.size = IF b.size < b.maxSize THEN b.size + 1 ELSE b.size]

\* getRecent that does not limit n to the number of stored lines
CB_getRecent_Unclamped(b, n0) ==
    IF n0 <= 0 THEN <<>>
    ELSE [i \in 1..n0 |-> b.buffer[(b.head - n0 + 2 * b.maxSize + (i - 1)) % b.maxSize]]

\* getRecent whose start index does not wrap below zero
CB_getRecent_NoWrap(b, n0) ==
    IF n0 <= 0 THEN <<>>
    ELSE LET n == IF n0 > b.size THEN b.size ELSE n0
             index == Max(b.head - n, 0)
         IN  [i \in 1..n |-> b.buffer[(index + (i - 1)) % b.maxSize]]

CB_getRecent(b, n0) ==
    IF n0 <= 0 THEN <<>>
    ELSE LET n == IF n0 > b.size THEN b.size ELSE n0
             index == (b.head - n + b.maxSize) % b.maxSize
         IN  [i \in 1..n |-> b.buffer[(index + (i - 1)) % b.maxSize]]

CB_getAll(b) == CB_getRecent(b, b.size)

\* clear that leaves the size as it was
CB_clear_KeepSize(b) ==
    [b EXCEPT !.buffer = [i \in 0..(b.maxSize - 1) |-> Undefined], !.head = 0]

CB_clear(b) ==
    [b EXCEPT !.buffer = [i \in 0..(b.maxSize - 1) |-> Undefined], !.head = 0, !.size = 0]

(***************************************************************************)
(* OutputProcessor, line mode                                              *)
(* A number with a fraction (a similarity, a threshold) is an exact        *)
(* rational [num, den]; the inputs of the model keep clear of the values   *)
(* where the rounding of a double could change a comparison.               *)
(***************************************************************************)

Rat(n, d) == [num |-> n, den |-> d]

RatGeq(x, y) == x.num * y.den >= y.num * x.den

SpinnerGlyphs ==
    {"U+280B", "U+2819", "U+2839", "U+2838", "U+283C", "U+2834", "U+2826", "U+2827", "U+2807", "U+280F"}

\* DEFAULT_CONFIG.knownPatterns.npm: "[", anything on one line, "] " and the first
\* spinner glyph; or (the alternation is at top level) any of the other nine glyphs
PatternNpm(line) ==
    \/ \E i, j \in 1..Len(line) :
          /\ i < j
          /\ line[i] = "["
          /\ OccursAt(line, <<"]", " ", "U+280B">>, j)
          /\ \A k \in (i + 1)..(j - 1) : line[k] \notin LineTerminators
    \/ \E i \in 1..Len(line) : line[i] \in SpinnerGlyphs \ {"U+280B"}

\* DEFAULT_CONFIG.knownPatterns.webpack: "[", one or more digits, "%]"
PatternWebpack(line) ==
    \E i, j \in 1..Len(line) :
        /\ i + 1 < j
        /\ line[i] = "["
        /\ \A k \in (i + 1)..(j - 1) : line[k] \in Digits
        /\ OccursAt(line, <<"%", "]">>, j)

\* DEFAULT_CONFIG.knownPatterns.progress: the line starts with "progress", in any case
PatternProgress(line) == OccursAt(LowerCase(line), <<"p", "r", "o", "g", "r", "e", "s", "s">>, 1)

\* DEFAULT_CONFIG.knownPatterns.spinner
PatternSpinner(line) == \E i \in 1..Len(line) : line[i] \in SpinnerGlyphs

\* pattern.test(line) for the pattern of that name
PatternTest(name, line) ==
    CASE name = "npm" -> PatternNpm(line)
      [] name = "webpack" -> PatternWebpack(line)
      [] name = "progress" -> PatternProgress(line)
      [] name = "spinner" -> PatternSpinner(line)

LM_DEFAULT_CONFIG ==
    [similarityThreshold |-> Rat(9, 10),
     recentLinesSize |-> 100,
     maxBufferSize |-> 1024 * 1024,
     keepFirstLines |-> 100,
     keepLastLines |-> 50,
     knownPatterns |-> {"npm", "webpack", "progress", "spinner"}]

EmptyMap == [k \in {} |-> FALSE]

MapPut(m, key, value) == [k \in DOMAIN m \cup {key} |-> IF k = key THEN value ELSE m[k]]

\* new OutputProcessor(config), config already merged over the defaults
LM_new(config) ==
    [recentLines |-> CB_new(config.recentLinesSize),
     patternCache |-> EmptyMap,
     config |-> config,
     totalSize |-> 0,
     allLines |-> <<>>,
     importantLines |-> {}]

\* a ProcessedLine; a field that is not set is Undefined / "undefined"
Result(skip, line, truncated) == [skip |-> skip, line |-> line, truncated |-> truncated]

\* one row of the matrix of levenshteinDistance: acc holds matrix[i][0..Len(acc)-1]
RECURSIVE LevRow(_, _, _, _, _)
LevRow(a, b, i, prev, acc) ==
    IF Len(acc) = Len(a) + 1 THEN acc
    ELSE LET j == Len(acc)
             cell == IF b[i] = a[j] THEN prev[j]
                     ELSE Min(prev[j] + 1, Min(acc[j] + 1, prev[j + 1] + 1))
         IN  LevRow(a, b, i, prev, Append(acc, cell))

\* the matrix of levenshteinDistance, row by row: matrix[i + 1] is the row i of the code
RECURSIVE LevMatrix(_, _, _)
LevMatrix(a, b, matrix) ==
    IF Len(matrix) = Len(b) + 1 THEN matrix
    ELSE LET i == Len(matrix)
         IN  LevMatrix(a, b, Append(matrix, LevRow(a, b, i, matrix[i], <<i>>)))

\* a distance that counts only the difference of the lengths
levenshteinDistance_LengthGap(a, b) == Max(Len(a), Len(b)) - Min(Len(a), Len(b))

levenshteinDistance(a, b) ==
    LevMatrix(a, b, << [j \in 1..(Len(a) + 1) |-> j - 1] >>)[Len(b) + 1][Len(a) + 1]

\* calculateSimilarity that returns the relative distance instead of 1 minus it
calculateSimilarity_Distance(a, b) ==
    IF a = b THEN Rat(1, 1)
    ELSE IF a = <<>> \/ b = <<>> THEN Rat(0, 1)
    ELSE Rat(levenshteinDistance(a, b), Max(Len(a), Len(b)))

calculateSimilarity(a, b) ==
    IF a = b THEN Rat(1, 1)
    ELSE IF a = <<>> \/ b = <<>> THEN Rat(0, 1)
    ELSE LET distance == levenshteinDistance(a, b)
             maxLength == Max(Len(a), Len(b))
         IN  Rat(maxLength - distance, maxLength)

\* isKnownPattern that knows no pattern
LM_isKnownPattern_Never(p, line) == [proc |-> p, result |-> FALSE]

\* isKnownPattern: the answer, and the processor with the answer cached
LM_isKnownPattern(p, line) ==
    LET cacheKey == <<"pattern", line>>
    IN  IF cacheKey \in DOMAIN p.patternCache
        THEN [proc |-> p, result |-> p.patternCache[cacheKey]]
        ELSE LET result == \E name \in p.config.knownPatterns : PatternTest(name, line)
             IN  [proc |-> [p EXCEPT !.patternCache = MapPut(@, cacheKey, result)],
                  result |-> result]

\* shouldDeduplicate with the cache left out: the answer is computed on every call
LM_shouldDeduplicate_NoCache(p, line) ==
    LET recentLines == CB_getRecent(p.recentLines, 10)
        isDuplicate == \E i \in 1..Len(recentLines) :
                          RatGeq(calculateSimilarity(line, recentLines[i]), p.config.similarityThreshold)
    IN  [proc |-> p, result |-> isDuplicate]

\* shouldDeduplicate that compares the line with every entry of the ring
LM_shouldDeduplicate_WholeRing(p, line) ==
    LET cacheKey == <<"dedup", line>>
    IN  IF cacheKey \in DOMAIN p.patternCache
        THEN [proc |-> p, result |-> p.patternCache[cacheKey]]
        ELSE LET recentLines == CB_getAll(p.recentLines)
                 isDuplicate == \E i \in 1..Len(recentLines) :
                                   RatGeq(calculateSimilarity(line, recentLines[i]),
                                          p.config.similarityThreshold)
             IN  [proc |-> [p EXCEPT !.patternCache = MapPut(@, cacheKey, isDuplicate)],
                  result |-> isDuplicate]

\* shouldDeduplicate: the answer, and the processor with the answer cached
LM_shouldDeduplicate(p, line) ==
    LET cacheKey == <<"dedup", line>>
    IN  IF cacheKey \in DOMAIN p.patternCache
        THEN [proc |-> p, result |-> p.patternCache[cacheKey]]
        ELSE LET recentLines == CB_getRecent(p.recentLines, 10)
                 isDuplicate == \E i \in 1..Len(recentLines) :
                                   RatGeq(calculateSimilarity(line, recentLines[i]),
                                          p.config.similarityThreshold)
             IN  [proc |-> [p EXCEPT !.patternCache = MapPut(@, cacheKey, isDuplicate)],
                  result |-> isDuplicate]

LM_shouldTruncate(p) == p.totalSize > p.config.maxBufferSize

\* the lines of all at the 0-based indices lo..hi-1 that are in the set marked
RECURSIVE MarkedLines(_, _, _, _)
MarkedLines(all, marked, lo, hi) ==
    IF lo >= hi THEN <<>>
    ELSE (IF lo \in marked THEN <<all[lo + 1]>> ELSE <<>>) \o MarkedLines(all, marked, lo + 1, hi)

RECURSIVE SumLengths(_)
SumLengths(lines) == IF lines = <<>> THEN 0 ELSE Len(Head(lines)) + SumLengths(Tail(lines))

\* allLines[allLines.length - 1], undefined for an empty array
LastLineOf(lines) == IF lines = <<>> THEN Undefined ELSE lines[Len(lines)]

\* truncateBuffer that keeps every line of the two windows, marked or not
LM_truncateBuffer_KeepWindows(p) ==
    IF Len(p.allLines) <= p.config.keepFirstLines + p.config.keepLastLines
    THEN [proc |-> p, res |-> Result(FALSE, LastLineOf(p.allLines), "undefined"), cut |-> FALSE]
    ELSE [proc |-> [p EXCEPT !.allLines = SubSeq(p.allLines, 1, p.config.keepFirstLines)
                                           \o SubSeq(p.allLines,
                                                     Max(p.config.keepFirstLines, Len(p.allLines) - p.config.keepLastLines) + 1,
                                                     Len(p.allLines)),
                            !.totalSize = 0,
                            !.importantLines = {}],
          res |-> Result(FALSE, LastLineOf(p.allLines), "true"),
          cut |-> TRUE]

\* truncateBuffer without the test for too few lines
LM_truncateBuffer_AlwaysCuts(p) ==
    [proc |-> [p EXCEPT !.allLines = MarkedLines(p.allLines, p.importantLines, 0, Min(p.config.keepFirstLines, Len(p.allLines)))
                                       \o MarkedLines(p.allLines, p.importantLines,
                                                      Max(p.config.keepFirstLines, Len(p.allLines) - p.config.keepLastLines),
                                                      Len(p.allLines)),
                        !.totalSize = 0,
                        !.importantLines = {}],
     res |-> Result(FALSE, LastLineOf(p.allLines), "true"),
     cut |-> TRUE]

LM_truncateBuffer(p) ==
    LET keepFirstLines == p.config.keepFirstLines
        keepLastLines == p.config.keepLastLines
        totalLines == Len(p.allLines)
    IN  IF totalLines <= keepFirstLines + keepLastLines
        THEN [proc |-> p, res |-> Result(FALSE, LastLineOf(p.allLines), "undefined"), cut |-> FALSE]
        ELSE LET startLastN == Max(keepFirstLines, totalLines - keepLastLines)
                 newLines == MarkedLines(p.allLines, p.importantLines, 0, keepFirstLines)
                             \o MarkedLines(p.allLines, p.importantLines, startLastN, totalLines)
             IN  [proc |-> [p EXCEPT !.allLines = newLines,
                                     !.totalSize = SumLengths(newLines),
                                     !.importantLines = {}],
                  res |-> Result(FALSE, LastLineOf(newLines), "true"),
                  cut |-> TRUE]

\* processLine that looks for known patterns before it looks for important lines
LM_processLine_PatternFirst(p, line) ==
    LET known == LM_isKnownPattern(p, line)
    IN  IF known.result
        THEN [proc |-> known.proc, res |-> Result(TRUE, Undefined, "undefined"), cut |-> FALSE]
        ELSE IF isImportantLine(line)
        THEN [proc |-> [known.proc EXCEPT !.importantLines = @ \cup {Len(p.allLines)},
                                          !.allLines = Append(@, line),
                                          !.totalSize = @ + Len(line)],
              res |-> Result(FALSE, line, "undefined"),
              cut |-> FALSE]
        ELSE LET dedup == LM_shouldDeduplicate(known.proc, line)
             IN  IF dedup.result
                 THEN [proc |-> dedup.proc, res |-> Result(TRUE, Undefined, "undefined"),
                       cut |-> FALSE]
                 ELSE LET q == [dedup.proc EXCEPT !.allLines = Append(@, line),
                                                  !.totalSize = @ + Len(line),
                                                  !.recentLines = CB_add(@, line)]
                      IN  IF LM_shouldTruncate(q) THEN LM_truncateBuffer(q)
                          ELSE [proc |-> q, res |-> Result(FALSE, line, "undefined"), cut |-> FALSE]

LM_processLine(p, line) ==
    IF isImportantLine(line)
    THEN [proc |-> [p EXCEPT !.importantLines = @ \cup {Len(p.allLines)},
                             !.allLines = Append(@, line),
                             !.totalSize = @ + Len(line)],
          res |-> Result(FALSE, line, "undefined"),
          cut |-> FALSE]
    ELSE LET known == LM_isKnownPattern(p, line)
         IN  IF known.result
             THEN [proc |-> known.proc, res |-> Result(TRUE, Undefined, "undefined"), cut |-> FALSE]
             ELSE LET dedup == LM_shouldDeduplicate(known.proc, line)
                  IN  IF dedup.result
                      THEN [proc |-> dedup.proc, res |-> Result(TRUE, Undefined, "undefined"),
                            cut |-> FALSE]
                      ELSE LET q == [dedup.proc EXCEPT !.allLines = Append(@, line),
                                                       !.totalSize = @ + Len(line),
                                                       !.recentLines = CB_add(@, line)]
                           IN  IF LM_shouldTruncate(q) THEN LM_truncateBuffer(q)
                               ELSE [proc |-> q, res |-> Result(FALSE, line, "undefined"), cut |-> FALSE]

\* clear() that forgets the cache of pattern and dedup answers
LM_clear_KeepCache(p) ==
    [p EXCEPT !.recentLines = CB_clear(@), !.allLines = <<>>, !.totalSize = 0, !.importantLines = {}]

LM_clear(p) ==
    [p EXCEPT !.recentLines = CB_clear(@),
              !.patternCache = EmptyMap,
              !.allLines = <<>>,
              !.totalSize = 0,
              !.importantLines = {}]

LM_getProcessedLines(p) == p.allLines

(***************************************************************************)
(* OutputProcessor, character mode                                         *)
(***************************************************************************)

CM_DEFAULT_CONFIG == [maxBufferSize |-> 1024 * 1024, keepFirstChars |-> 10000, keepLastChars |-> 10000]

\* "\n[...output truncated...]\n"
TruncationText ==
    <<"[", ".", ".", ".", "o", "u", "t", "p", "u", "t", " ",
      "t", "r", "u", "n", "c", "a", "t", "e", "d", ".", ".", ".", "]">>

TruncationMarker == <<"\n">> \o TruncationText \o <<"\n">>

\* String.prototype.slice(start) and slice(start, end) for the arguments used:
\* a negative start counts from the end (and -0 is 0: the whole string)
SliceFrom(s, start) ==
    LET from == IF start < 0 THEN Max(Len(s) + start, 0) ELSE Min(start, Len(s))
    IN  SubSeq(s, from + 1, Len(s))

SliceTo(s, end) == SubSeq(s, 1, Min(Max(end, 0), Len(s)))

CM_new(config) == [buffer |-> <<>>, totalSize |-> 0, wasTruncated |-> FALSE, config |-> config]

CM_addToBuffer(p, text) == [p EXCEPT !.buffer = @ \o text, !.totalSize = @ + Len(text)]

CM_shouldTruncate(p) == p.totalSize > p.config.maxBufferSize

\* truncateBuffer that leaves totalSize as it was
CM_truncateBuffer_StaleTotal(p) ==
    LET keepFirstChars == p.config.keepFirstChars
        keepLastChars == p.config.keepLastChars
    IN  IF Len(p.buffer) <= keepFirstChars + keepLastChars THEN p
        ELSE [p EXCEPT !.buffer = SliceTo(p.buffer, keepFirstChars) \o TruncationMarker
                                  \o SliceFrom(p.buffer, 0 - keepLastChars),
                       !.wasTruncated = TRUE]

CM_truncateBuffer(p) ==
    LET keepFirstChars == p.config.keepFirstChars
        keepLastChars == p.config.keepLastChars
    IN  IF Len(p.buffer) <= keepFirstChars + keepLastChars THEN p
        ELSE LET firstPart == SliceTo(p.buffer, keepFirstChars)
                 lastPart == SliceFrom(p.buffer, 0 - keepLastChars)
                 buffer == firstPart \o TruncationMarker \o lastPart
             IN  [p EXCEPT !.buffer = buffer, !.totalSize = Len(buffer), !.wasTruncated = TRUE]

CM_processLine(p, line) ==
    LET cleanLine == stripAnsi(line)
    IN  IF isImportantLine(cleanLine)
        THEN [proc |-> CM_addToBuffer(p, cleanLine \o <<"\n">>),
              res |-> Result(FALSE, cleanLine, "undefined"),
              cut |-> FALSE]
        ELSE LET q == CM_addToBuffer(p, cleanLine \o <<"\n">>)
             IN  IF CM_shouldTruncate(q)
                 THEN LET r == CM_truncateBuffer(q)
                      IN  [proc |-> r,
                           res |-> Result(FALSE, cleanLine, IF ~r.wasTruncated THEN "true" ELSE "false"),
                           cut |-> r.buffer # q.buffer]
                 ELSE [proc |-> q, res |-> Result(FALSE, cleanLine, "undefined"), cut |-> FALSE]

\* clear() that leaves the truncation latch set
CM_clear_KeepLatch(p) == [p EXCEPT !.buffer = <<>>, !.totalSize = 0]

CM_clear(p) == [p EXCEPT !.buffer = <<>>, !.totalSize = 0, !.wasTruncated = FALSE]

CM_getProcessedOutput(p) == p.buffer

(***************************************************************************)
(* TerminalProcess: the pure parts                                         *)
(***************************************************************************)

\* 1024 in the source; the three sizes of the constructor keep their ratio
KiB == 1

\* the configuration the constructor gives its (character mode) OutputProcessor
TP_CONFIG == [maxBufferSize |-> 100 * KiB, keepFirstChars |-> 40 * KiB, keepLastChars |-> 40 * KiB]

PromptArtifacts == {"%", "$", "#", ">"}

\* lastLine.replace(/[%$#>]\s*$/, ""): the leftmost artifact with only white space after it
RemovePromptArtifact(lastLine) ==
    CutAt(lastLine, FirstOrZero({i \in 1..Len(lastLine) :
                                    /\ lastLine[i] \in PromptArtifacts
                                    /\ \A k \in (i + 1)..Len(lastLine) : lastLine[k] \in Whitespace}))

\* lines with the artifact of the last line removed
ArtifactsOff(lines) == [lines EXCEPT ![Len(lines)] = RemovePromptArtifact(@)]

\* removeLastLineArtifacts that only trims
TP_removeLastLineArtifacts_TrimOnly(output) == TrimEnd(output)

TP_removeLastLineArtifacts(output) == TrimEnd(JoinLines(ArtifactsOff(SplitLines(TrimEnd(output)))))

SeqC == <<"]", "6", "3", "3", ";", "C">>

SeqD == <<"]", "6", "3", "3", ";", "D">>

Seq633 == <<"]", "6", "3", "3", ";">>

\* where an end marker can follow the start marker at position i
MarkerEnds(data, i) == {j \in (i + 6)..Len(data) : OccursAt(data, SeqD, j)}

\* the captured group of the match that starts at position i; no match when i is 0
Between(data, i) ==
    IF i = 0 THEN <<>> ELSE SubSeq(data, i + 6, FirstOrZero(MarkerEnds(data, i)) - 1)

\* data.match(/\]633;C([\s\S]*?)\]633;D/)?.[1] || ""
OutputBetweenMarkers(data) ==
    Between(data, FirstOrZero({i \in 1..Len(data) :
                                  OccursAt(data, SeqC, i) /\ MarkerEnds(data, i) # {}}))

\* the position after the one given, 0 remaining 0
AfterOrZero(m) == IF m = 0 THEN 0 ELSE m + 1

\* a match of /\x1b\]633;.[^\x07]*\x07/ at position i: the position after it, or 0
OscMatch(s, i) ==
    IF /\ OccursAt(s, <<"ESC">> \o Seq633, i)
       /\ i + 6 <= Len(s)
       /\ s[i + 6] \notin LineTerminators
    THEN AfterOrZero(FirstOrZero({e \in (i + 7)..Len(s) : s[e] = "BEL"}))
    ELSE 0

\* s from position i on without the matches; m is the start of the leftmost match
RECURSIVE RemoveOscFrom(_, _)
RemoveOscStep(s, i, m) ==
    IF m = 0 THEN SubSeq(s, i, Len(s))
    ELSE SubSeq(s, i, m - 1) \o RemoveOscFrom(s, OscMatch(s, m))

RemoveOscFrom(s, i) == RemoveOscStep(s, i, FirstOrZero({j \in i..Len(s) : OscMatch(s, j) # 0}))

\* the end of a match of /\]633;[^\n]*/: the first newline at n, or the end of s
LineEnd(s, n) == IF n = 0 THEN Len(s) + 1 ELSE n

\* a match of /\]633;[^\n]*/ at position i: the position after it, or 0
PartialMatch(s, i) ==
    IF ~OccursAt(s, Seq633, i) THEN 0
    ELSE LineEnd(s, FirstOrZero({e \in (i + 5)..Len(s) : s[e] = "\n"}))

RECURSIVE RemovePartialFrom(_, _)
RemovePartialStep(s, i, m) ==
    IF m = 0 THEN SubSeq(s, i, Len(s))
    ELSE SubSeq(s, i, m - 1) \o RemovePartialFrom(s, PartialMatch(s, m))

RemovePartialFrom(s, i) ==
    RemovePartialStep(s, i, FirstOrZero({j \in i..Len(s) : PartialMatch(s, j) # 0}))

TP_removeShellIntegrationSequences(data) ==
    Without(RemovePartialFrom(RemoveOscFrom(data, 1), 1), {","})

\* s.replace(/^[^a-zA-Z0-9]*/, "")
StripLeadingNonAlnum(s) == DropTo(s, FirstOrZero({i \in 1..Len(s) : s[i] \in Alphanumerics}))

\* outputBetweenSequences + "\n" + data when there is any
WithBetween(outputBetweenSequences, data) ==
    IF outputBetweenSequences # <<>> THEN outputBetweenSequences \o <<"\n">> \o data ELSE data

\* lines[0].slice(1) when its first two characters are the same
DropDuplicateFirst(line) ==
    IF Len(line) >= 2 /\ line[1] = line[2] THEN Tail(line) ELSE line

\* the clean-up of lines[0] and lines[1]
CleanFirstLines(lines) ==
    [i \in 1..Len(lines) |->
        IF i = 1
        THEN StripLeadingNonAlnum(DropDuplicateFirst(SelectSeq(lines[1], LAMBDA c : c \in Printable)))
        ELSE IF i = 2 THEN StripLeadingNonAlnum(lines[2])
        ELSE lines[i]]

TP_processFirstChunk(data) ==
    JoinLines(CleanFirstLines(SplitLines(
        WithBetween(Trim(TP_removeLastLineArtifacts(OutputBetweenMarkers(data))),
                    TP_removeShellIntegrationSequences(data)))))

\* the result of processCommandEcho when lines[k] is the first line not in the command
EchoFrom(lines, k) ==
    IF k = 0 THEN [processedData |-> <<>>, foundNonCommand |-> FALSE]
    ELSE [processedData |-> JoinLines(SubSeq(lines, k, Len(lines))), foundNonCommand |-> TRUE]

EchoLines(lines, command) ==
    EchoFrom(lines, FirstOrZero({i \in 1..Len(lines) : ~Includes(command, Trim(lines[i]))}))

TP_processCommandEcho(data, command) == EchoLines(SplitLines(data), command)

compilingMarkers ==
    { <<"c", "o", "m", "p", "i", "l", "i", "n", "g">>,
      <<"b", "u", "i", "l", "d", "i", "n", "g">>,
      <<"b", "u", "n", "d", "l", "i", "n", "g">>,
      <<"t", "r", "a", "n", "s", "p", "i", "l", "i", "n", "g">>,
      <<"g", "e", "n", "e", "r", "a", "t", "i", "n", "g">>,
      <<"s", "t", "a", "r", "t", "i", "n", "g">> }

markerNullifiers ==
    { <<"c", "o", "m", "p", "i", "l", "e", "d">>,
      <<"s", "u", "c", "c", "e", "s", "s">>,
      <<"f", "i", "n", "i", "s", "h">>,
      <<"c", "o", "m", "p", "l", "e", "t", "e">>,
      <<"s", "u", "c", "c", "e", "e", "d">>,
      <<"d", "o", "n", "e">>,
      <<"e", "n", "d">>,
      <<"s", "t", "o", "p">>,
      <<"e", "x", "i", "t">>,
      <<"t", "e", "r", "m", "i", "n", "a", "t", "e">>,
      <<"e", "r", "r", "o", "r">>,
      <<"f", "a", "i", "l">> }

\* isCompiling of updateHotState
IsCompiling(data) ==
    /\ \E marker \in compilingMarkers : Includes(LowerCase(data), marker)
    /\ ~\E nullifier \in markerNullifiers : Includes(LowerCase(data), nullifier)

\* the processor variables of a specification that constructs no processor
ProcIdle ==
    /\ variant = "none"
    /\ proc = <<>>
    /\ fresh = <<>>
    /\ calls = <<>>
    /\ cleared = FALSE
    /\ nCalls = 0
    /\ feed = {}

\* the TerminalProcess variables of a specification that constructs no TerminalProcess
TPIdle ==
    /\ tp = <<>>
    /\ run = <<>>
    /\ lineListeners = FALSE
    /\ events = <<>>
    /\ fed = <<>>
    /\ yielded = <<>>
    /\ tpSteps = <<>>
    /\ unretrieved = <<>>
    /\ stream = {}

\* the buffer variables of a specification that constructs no CircularBuffer of its own
CBIdle ==
    /\ cb = <<>>
    /\ cbAdded = <<>>
    /\ cbResult = <<>>

(***************************************************************************)
(* SpecCB: a CircularBuffer and its callers                                *)
(***************************************************************************)

MaxCap == 3

MaxAdds == 7

CBItems == {<<"a">>, <<"b">>}

CBInit ==
    /\ \E n \in 1..MaxCap : cb = CB_new(n)
    /\ cbAdded = <<>>
    /\ cbResult = [n |-> 0, items |-> <<>>]
    /\ ProcIdle
    /\ TPIdle

CBAdd ==
    /\ Len(cbAdded) < MaxAdds
    /\ \E line \in CBItems :
          /\ cb' = CB_add(cb, line)
          /\ cbAdded' = Append(cbAdded, line)
    /\ UNCHANGED <<cbResult, procVars, tpVars>>

CBGetRecent ==
    /\ \E n \in -1..(MaxCap + 1) : cbResult' = [n |-> n, items |-> CB_getRecent(cb, n)]
    /\ UNCHANGED <<cb, cbAdded, procVars, tpVars>>

CBClear ==
    /\ cb' = CB_clear(cb)
    /\ cbAdded' = <<>>
    /\ UNCHANGED <<cbResult, procVars, tpVars>>

CBNext == CBAdd \/ CBGetRecent \/ CBClear

SpecCB == CBInit /\ [][CBNext]_vars

\* C1: for every capacity N > 0 and every sequence of M adds with no clear in
\* between, getAll() is exactly the last min(N, M) added items, oldest first,
\* also after the write index has wrapped around the capacity several times.
C1_GetAllIsLastAdded ==
    CB_getAll(cb) = LastN(cbAdded, Min(cb.maxSize, Len(cbAdded)))

\* C1 witness: a buffer whose write index has gone round the capacity more than twice
C1_Witness ==
    /\ cb.maxSize >= 2
    /\ Len(cbAdded) > 2 * cb.maxSize
    /\ CB_getAll(cb) = LastN(cbAdded, cb.maxSize)
    /\ \E i, j \in 1..Len(CB_getAll(cb)) : CB_getAll(cb)[i] # CB_getAll(cb)[j]

(***************************************************************************)
(* SpecProc: an OutputProcessor of either class and its caller             *)
(***************************************************************************)

MaxCalls == 4

LineAB == <<"a", "b">>

LineAC == <<"a", "c">>

LineFail == <<"f", "a", "i", "l">>

LineProgressFail == <<"[", "1", "%", "]", "F", "A", "I", "L">>

LineProgress == <<"[", "1", "%", "]">>

LineAnsiFail == <<"ESC", "[", "m", "f", "a", "i", "l">>

ProcFeed == {LineAB, LineAC, LineFail, LineProgressFail, LineProgress, LineAnsiFail}

\* the configurations a caller passes to the line-mode constructor
LMConfigs ==
    { LM_DEFAULT_CONFIG,
      [LM_DEFAULT_CONFIG EXCEPT !.similarityThreshold = Rat(1, 2), !.recentLinesSize = 2,
                                !.maxBufferSize = 7, !.keepFirstLines = 1, !.keepLastLines = 1],
      [LM_DEFAULT_CONFIG EXCEPT !.recentLinesSize = 3,
                                !.maxBufferSize = 3, !.keepFirstLines = 0, !.keepLastLines = 1] }

\* the configurations a caller passes to the character-mode constructor
CMConfigs ==
    { [CM_DEFAULT_CONFIG EXCEPT !.maxBufferSize = 8, !.keepFirstChars = 2, !.keepLastChars = 2],
      [CM_DEFAULT_CONFIG EXCEPT !.maxBufferSize = 4, !.keepFirstChars = 10, !.keepLastChars = 10] }

ProcInit ==
    /\ CBIdle
    /\ TPIdle
    /\ \/ /\ variant = "line"
          /\ \E config \in LMConfigs : proc = LM_new(config)
       \/ /\ variant = "char"
          /\ \E config \in CMConfigs : proc = CM_new(config)
    /\ fresh = proc
    /\ calls = <<>>
    /\ cleared = FALSE
    /\ nCalls = 0
    /\ feed = ProcFeed

\* one processLine(line) of the line-mode processor; the twin gets the same call
LMProcessLine ==
    /\ variant = "line"
    /\ nCalls < MaxCalls
    /\ \E line \in feed :
          LET r == LM_processLine(proc, line)
              f == LM_processLine(fresh, line)
          IN  /\ proc' = r.proc
              /\ fresh' = f.proc
              /\ calls' = Append(calls, [line |-> line, res |-> r.res, cut |-> r.cut, freshRes |-> f.res])
    /\ nCalls' = nCalls + 1
    /\ UNCHANGED <<variant, cleared, feed, cbVars, tpVars>>

LMClear ==
    /\ variant = "line"
    /\ proc' = LM_clear(proc)
    /\ fresh' = LM_new(proc.config)
    /\ calls' = <<>>
    /\ cleared' = TRUE
    /\ UNCHANGED <<variant, nCalls, feed, cbVars, tpVars>>

\* one processLine(line) of the character-mode processor; the twin gets the same call
CMProcessLine ==
    /\ variant = "char"
    /\ nCalls < MaxCalls
    /\ \E line \in feed :
          LET r == CM_processLine(proc, line)
              f == CM_processLine(fresh, line)
          IN  /\ proc' = r.proc
              /\ fresh' = f.proc
              /\ calls' = Append(calls, [line |-> line, res |-> r.res, cut |-> r.cut, freshRes |-> f.res])
    /\ nCalls' = nCalls + 1
    /\ UNCHANGED <<variant, cleared, feed, cbVars, tpVars>>

CMClear ==
    /\ variant = "char"
    /\ proc' = CM_clear(proc)
    /\ fresh' = CM_new(proc.config)
    /\ calls' = <<>>
    /\ cleared' = TRUE
    /\ UNCHANGED <<variant, nCalls, feed, cbVars, tpVars>>

LMNext == LMProcessLine \/ LMClear

CMNext == CMProcessLine \/ CMClear

ProcNext == LMNext \/ CMNext

SpecProc == ProcInit /\ [][ProcNext]_vars

\* the text a processor works on: character mode strips the escape sequences first
Processed(line) == IF variant = "char" THEN stripAnsi(line) ELSE line

\* getProcessedLines() / getProcessedOutput() still holds the line
Retains(p, line) ==
    IF variant = "char" THEN Includes(CM_getProcessedOutput(p), line)
    ELSE line \in Range(LM_getProcessedLines(p))

\* getProcessedLines() or getProcessedOutput(), whichever the class has
Retained(p) == IF variant = "char" THEN CM_getProcessedOutput(p) ELSE LM_getProcessedLines(p)

\* the positions in calls of the calls that returned truncated = true
TruncatedCalls == {k \in 1..Len(calls) : calls[k].res.truncated = "true"}

\* the positions in calls of the calls that cut the retained history or buffer down
CuttingCalls == {k \in 1..Len(calls) : calls[k].cut}

\* a line that is neither important nor matches a known pattern of the configuration
IsPlain(line) ==
    /\ ~isImportantLine(line)
    /\ ~\E name \in proc.config.knownPatterns : PatternTest(name, line)

\* C2: an important line that processLine accepted is still in the retained
\* output (getProcessedLines / getProcessedOutput) after any further calls,
\* truncations included, until clear().
C2_ImportantLineRetained ==
    \A k \in 1..Len(calls) :
        isImportantLine(Processed(calls[k].line)) => Retains(proc, Processed(calls[k].line))

\* C3 as stated: a line that contains a severity keyword in any letter case is
\* returned with skip = false and with that very line, in every state and for
\* both classes.
C3_ImportantNeverSkipped_Stated ==
    \A k \in 1..Len(calls) :
        isImportantLine(calls[k].line) =>
            /\ calls[k].res.skip = FALSE
            /\ calls[k].res.line = calls[k].line

\* C3 amended: a line that contains a severity keyword in any letter case is
\* returned with skip = false; the returned line is that line in line mode and
\* that line with its escape sequences stripped in character mode.
C3_ImportantNeverSkipped ==
    \A k \in 1..Len(calls) :
        isImportantLine(calls[k].line) =>
            /\ calls[k].res.skip = FALSE
            /\ calls[k].res.line = Processed(calls[k].line)

\* C3 witness: in line mode an important line that also matches a known pattern
\* came back unskipped although the same text had been accepted just before
C3_Witness ==
    /\ variant = "line"
    /\ Len(calls) >= 2
    /\ calls[Len(calls)].line = LineProgressFail
    /\ calls[Len(calls) - 1].line = LineProgressFail
    /\ PatternTest("webpack", LineProgressFail)
    /\ calls[Len(calls)].res = Result(FALSE, LineProgressFail, "undefined")

\* C4: between construction (or the last clear()) and the next clear(), at
\* most one processLine call returns truncated = true.
C4_TruncatedAtMostOnce == Cardinality(TruncatedCalls) <= 1

\* C5: the first call since construction or clear() that pushes the total over
\* maxBufferSize and has the buffer cut down returns truncated = true.
C5_FirstTruncationSignalled ==
    \A k \in CuttingCalls :
        (\A j \in CuttingCalls : k <= j) => calls[k].res.truncated = "true"

\* C7: with the default configuration, the same plain line passed to a new
\* processor twice in a row: the first call returns skip = false and the second
\* returns skip = true.
C7_SecondIdenticalLineSkipped ==
    (/\ variant = "line"
     /\ proc.config = LM_DEFAULT_CONFIG
     /\ Len(calls) = 2
     /\ calls[1].line = calls[2].line
     /\ IsPlain(calls[1].line))
    => (calls[1].res.skip = FALSE /\ calls[2].res.skip = TRUE)

\* C8: between two clear() calls, two processLine calls with the same line
\* text return the same skip value, whatever was processed between them.
C8_SameTextSameSkip ==
    \A i, j \in 1..Len(calls) :
        calls[i].line = calls[j].line => calls[i].res.skip = calls[j].res.skip

\* C8 witness: a plain line kept, a line similar to it skipped, and both passed
\* again later with the same answers although the ring buffer has changed
C8_Witness ==
    /\ variant = "line"
    /\ Len(calls) = 4
    /\ IsPlain(calls[1].line) /\ IsPlain(calls[2].line)
    /\ calls[1].line # calls[2].line
    /\ calls[3].line = calls[2].line /\ calls[4].line = calls[1].line
    /\ ~calls[1].res.skip /\ calls[2].res.skip
    /\ calls[3].res.skip /\ ~calls[4].res.skip

\* C10: after clear() the processor cannot be told from a newly constructed
\* one with the same configuration: every call since the clear() returned what
\* the new processor returns for it, and both retain the same output.
C10_ClearedEqualsNew ==
    cleared =>
        /\ \A k \in 1..Len(calls) : calls[k].res = calls[k].freshRes
        /\ Retained(proc) = Retained(fresh)
        /\ proc = fresh

\* C10 witness: calls were made before the clear() and after it, and a call
\* after it was answered from a comparison with the lines since the clear()
C10_Witness ==
    /\ cleared
    /\ nCalls > Len(calls)
    /\ Len(calls) >= 2
    /\ variant = "line"
    /\ calls[Len(calls)].res.skip
    /\ IsPlain(calls[Len(calls)].line)

\* the size of what the processor retains: the characters of its lines or of its buffer
RetainedSize(p) == IF variant = "char" THEN Len(p.buffer) ELSE SumLengths(p.allLines)

\* C11: the running byte total equals the size of what is retained: totalSize is
\* the sum of the lengths of the lines of allLines in line mode and the length
\* of the buffer in character mode, after every processLine (with or without
\* truncation) and every clear().
C11_TotalEqualsRetained == proc.totalSize = RetainedSize(proc)

\* C11 witness: a line-mode processor that has cut its history down and still
\* retains lines, after calls made before and after a cut
C11_Witness ==
    /\ variant = "line"
    /\ CuttingCalls # {}
    /\ proc.allLines # <<>>
    /\ proc.totalSize = SumLengths(proc.allLines)
    /\ proc.totalSize > 0

\* the retained content is larger than the keep window
BeyondKeepWindow(p) ==
    IF variant = "char" THEN Len(p.buffer) > p.config.keepFirstChars + p.config.keepLastChars
    ELSE Len(p.allLines) > p.config.keepFirstLines + p.config.keepLastLines

\* C12: at the return of every processLine call, whatever the lines were
\* (important lines only included), the retained total is at most maxBufferSize
\* whenever the retained content is larger than the keep window.
C12_HardCap ==
    (calls # <<>> /\ BeyondKeepWindow(proc)) => RetainedSize(proc) <= proc.config.maxBufferSize

(***************************************************************************)
(* SpecSim: a line-mode processor fed the lines of the similarity tests    *)
(***************************************************************************)

LineItem123 ==
    <<"P", "r", "o", "c", "e", "s", "s", "i", "n", "g", " ", "i", "t", "e", "m", " ",
      "1", "2", "3", ".", ".", ".">>

LineItem124 ==
    <<"P", "r", "o", "c", "e", "s", "s", "i", "n", "g", " ", "i", "t", "e", "m", " ",
      "1", "2", "4", ".", ".", ".">>

LineDifferent ==
    <<"D", "i", "f", "f", "e", "r", "e", "n", "t", " ", "l", "i", "n", "e", " ",
      "e", "n", "t", "i", "r", "e", "l", "y">>

SimFeed == {LineItem123, LineItem124, LineDifferent}

\* similarityThreshold 0.8, 0.95 and 0.96 over the defaults
SimConfigs ==
    { [LM_DEFAULT_CONFIG EXCEPT !.similarityThreshold = Rat(4, 5)],
      [LM_DEFAULT_CONFIG EXCEPT !.similarityThreshold = Rat(19, 20)],
      [LM_DEFAULT_CONFIG EXCEPT !.similarityThreshold = Rat(24, 25)] }

SimInit ==
    /\ CBIdle
    /\ TPIdle
    /\ variant = "line"
    /\ \E config \in SimConfigs : proc = LM_new(config)
    /\ fresh = proc
    /\ calls = <<>>
    /\ cleared = FALSE
    /\ nCalls = 0
    /\ feed = SimFeed

SpecSim == SimInit /\ [][LMNext]_vars

\* 'Processing item 123...' and then 'Processing item 124...' on a new (or cleared) processor
ItemScenario ==
    /\ Len(calls) = 2
    /\ calls[1].line = LineItem123
    /\ calls[2].line = LineItem124

\* C9 as stated: after 'Processing item 123...', 'Processing item 124...' is
\* skipped with similarityThreshold 0.8 and kept with similarityThreshold 0.95.
C9_Threshold_Stated ==
    ItemScenario =>
        /\ proc.config.similarityThreshold = Rat(4, 5) => calls[2].res.skip
        /\ proc.config.similarityThreshold = Rat(19, 20) => ~calls[2].res.skip

\* C9 amended: the two lines differ by one substitution in 22 characters, a
\* similarity of 21/22 (about 0.9545); the second line is skipped with
\* similarityThreshold 0.8 and also with 0.95, and it is kept only with a
\* threshold above 21/22, such as 0.96.
C9_Threshold ==
    ItemScenario =>
        /\ calculateSimilarity(LineItem124, LineItem123) = Rat(21, 22)
        /\ proc.config.similarityThreshold = Rat(4, 5) => calls[2].res.skip
        /\ proc.config.similarityThreshold = Rat(19, 20) => calls[2].res.skip
        /\ proc.config.similarityThreshold = Rat(24, 25) => ~calls[2].res.skip

\* C9 witness: the scenario with threshold 0.95, first line kept, second line skipped
C9_Witness ==
    /\ ItemScenario
    /\ proc.config.similarityThreshold = Rat(19, 20)
    /\ ~calls[1].res.skip
    /\ calls[2].res.skip

(***************************************************************************)
(* SpecTP: a TerminalProcess, the stream of its run() and its callers      *)
(* An emit call is an entry of events; heard tells whether a listener was  *)
(* registered for it at that moment.  The timer of the hot state is        *)
(* "pending" (with its delay), "fired" or "cleared".                       *)
(***************************************************************************)

\* how many calls and stream steps a behaviour has: run(), a chunk, the end of the stream,
\* continue(), getUnretrievedOutput()
MaxSteps == 7

\* new TerminalProcess()
TP_new ==
    [isListening |-> TRUE,
     buffer |-> <<>>,
     fullOutput |-> <<>>,
     lastRetrievedIndex |-> 0,
     isHot |-> FALSE,
     hotTimer |-> "null",
     outputProcessor |-> CM_new(TP_CONFIG),
     hasTruncationMessage |-> FALSE]

\* the event put in front of the history
Emit_Front(log, type, line) ==
    <<[type |-> type, line |-> line, heard |-> IF type = "line" THEN lineListeners ELSE TRUE]>> \o log

\* this.emit(type, ...) added to the history
Emit(log, type, line) ==
    Append(log, [type |-> type, line |-> line, heard |-> IF type = "line" THEN lineListeners ELSE TRUE])

\* log with a 'line' event for line added when cond holds
EmitLineIf(cond, log, line) == IF cond THEN Emit(log, "line", line) ELSE log

\* result.truncated && !this.hasTruncationMessage, for a result that is not skipped
NeedsMarker(st, result) ==
    ~result.skip /\ result.truncated = "true" /\ ~st.tp.hasTruncationMessage

\* the part of emitIfEol and emitRemainingBufferIfListening that follows
\* result = processLine(line); st holds the object, the events and the processLine
\* calls so far, call is what processLine did
TP_emitCall(st, call, line) ==
    [tp |-> [st.tp EXCEPT !.outputProcessor = call.proc,
                          !.hasTruncationMessage = @ \/ NeedsMarker(st, call.res)],
     events |-> EmitLineIf(~call.res.skip /\ call.res.line # Undefined /\ call.res.line # <<>>,
                           EmitLineIf(NeedsMarker(st, call.res), st.events, TruncationText),
                           call.res.line),
     fed |-> Append(st.fed, [line |-> line, res |-> call.res, cut |-> call.cut])]

TP_emitResult(st, line) == TP_emitCall(st, CM_processLine(st.tp.outputProcessor, line), line)

\* this.buffer = this.buffer.slice(lineEndIndex + 1)
DropLine(st, lineEndIndex) ==
    [st EXCEPT !.tp.buffer = SubSeq(@, lineEndIndex + 1, Len(@))]

\* the while loop of emitIfEol
RECURSIVE TP_emitLoop(_)
TP_emitLoopAt(st, lineEndIndex) ==
    IF lineEndIndex = 0 THEN st
    ELSE TP_emitLoop(DropLine(TP_emitResult(st, TrimEnd(SubSeq(st.tp.buffer, 1, lineEndIndex - 1))),
                              lineEndIndex))

TP_emitLoop(st) == TP_emitLoopAt(st, IndexOfNewline(st.tp.buffer))

\* emitIfEol with an if for the while: at most one line is taken from the buffer
TP_emitOneAt(st, lineEndIndex) ==
    IF lineEndIndex = 0 THEN st
    ELSE DropLine(TP_emitResult(st, TrimEnd(SubSeq(st.tp.buffer, 1, lineEndIndex - 1))), lineEndIndex)

TP_emitIfEol_OneLine(st, chunk) ==
    TP_emitOneAt([st EXCEPT !.tp.buffer = @ \o chunk], IndexOfNewline(st.tp.buffer \o chunk))

TP_emitIfEol(st, chunk) == TP_emitLoop([st EXCEPT !.tp.buffer = @ \o chunk])

\* if (remainingBuffer) { ... }
FlushLine(st, remainingBuffer) ==
    IF remainingBuffer # <<>> THEN TP_emitResult(st, remainingBuffer) ELSE st

\* this.buffer = ""; this.lastRetrievedIndex = this.fullOutput.length
Flushed(st) == [st EXCEPT !.tp.buffer = <<>>, !.tp.lastRetrievedIndex = Len(st.tp.fullOutput)]

TP_emitRemainingBufferIfListening(st) ==
    IF st.tp.buffer # <<>> /\ st.tp.isListening
    THEN Flushed(FlushLine(st, TP_removeLastLineArtifacts(st.tp.buffer)))
    ELSE st

\* the object with updateHotState(data) applied
TP_updateHotState(o, data) ==
    [o EXCEPT !.isHot = TRUE,
              !.hotTimer = IF IsCompiling(data) THEN "pending 15000" ELSE "pending 2000"]

\* the object with cleanupHotState() applied
TP_cleanupHotState(o) ==
    [o EXCEPT !.isHot = FALSE, !.hotTimer = IF @ = "null" THEN @ ELSE "cleared"]

Command == <<"l", "s">>

ChunkLong == <<"S", "o", "m", "e", " ", "r", "e", "p", "e", "a", "t", "e", "d", " ", "o", "u", "t", "p", "u", "t", " ", "l", "i", "n", "e", "\n">>

ChunkPartial == <<"a", "b">>

ChunkEcho == <<"l", "s", "\n">>

TPStream == {ChunkLong, ChunkPartial, ChunkEcho}

TPInit ==
    /\ CBIdle
    /\ ProcIdle
    /\ tp = TP_new
    /\ run = [pc |-> "idle", command |-> <<>>, isFirstChunk |-> FALSE,
              didOutputNonCommand |-> FALSE, didEmitEmptyLine |-> FALSE, since |-> 0]
    /\ lineListeners = TRUE
    /\ events = <<>>
    /\ fed = <<>>
    /\ yielded = <<>>
    /\ tpSteps = 0
    /\ unretrieved = <<>>
    /\ stream = TPStream

\* run(terminal, command) on a terminal with shell integration, up to the first await
TPRun ==
    /\ run.pc # "streaming"
    /\ tpSteps < MaxSteps
    /\ run' = [pc |-> "streaming", command |-> Command, isFirstChunk |-> TRUE,
               didOutputNonCommand |-> FALSE, didEmitEmptyLine |-> FALSE, since |-> Len(events)]
    /\ tp' = [tp EXCEPT !.hasTruncationMessage = FALSE]
    /\ fed' = <<>>
    /\ yielded' = <<>>
    /\ tpSteps' = tpSteps + 1
    /\ UNCHANGED <<lineListeners, events, unretrieved, stream, cbVars, procVars>>

\* run(terminal, command) on a terminal without shell integration
TPRunNoShellIntegration ==
    /\ run.pc # "streaming"
    /\ tpSteps < MaxSteps
    /\ run' = [pc |-> "done", command |-> Command, isFirstChunk |-> FALSE,
               didOutputNonCommand |-> FALSE, didEmitEmptyLine |-> FALSE, since |-> Len(events)]
    /\ events' = Emit(Emit(Emit(events, "completed", <<>>), "continue", <<>>),
                      "no_shell_integration", <<>>)
    /\ fed' = <<>>
    /\ yielded' = <<>>
    /\ tpSteps' = tpSteps + 1
    /\ UNCHANGED <<tp, lineListeners, unretrieved, stream, cbVars, procVars>>

\* data after "if (isFirstChunk) { ... }"
FirstChunkData(isFirstChunk, chunk) ==
    IF isFirstChunk THEN TP_processFirstChunk(chunk) ELSE chunk

\* the latch left out: processCommandEcho is applied to every chunk
EchoData_NoLatch(didOutputNonCommand, data, command) == TP_processCommandEcho(data, command)

\* processedData and didOutputNonCommand after "if (!didOutputNonCommand) { ... }"
EchoData(didOutputNonCommand, data, command) ==
    IF ~didOutputNonCommand THEN TP_processCommandEcho(data, command)
    ELSE [processedData |-> data, foundNonCommand |-> TRUE]

\* !didEmitEmptyLine && !this.fullOutput && data
NeedsSpinner(r, o, data) == ~r.didEmitEmptyLine /\ o.fullOutput = <<>> /\ data # <<>>

\* this.lastRetrievedIndex = this.fullOutput.length - this.buffer.length
Retrieved(st) ==
    [st EXCEPT !.tp.lastRetrievedIndex = Len(st.tp.fullOutput) - Len(st.tp.buffer)]

\* the guard left out: every chunk reaches emitIfEol
Listen_Always(st, data) == Retrieved(TP_emitIfEol(st, data))

\* if (this.isListening) { ... }
Listen(st, data) == IF st.tp.isListening THEN Retrieved(TP_emitIfEol(st, data)) ELSE st

\* the loop body from updateHotState(data) on, data being what the sanitising left
TP_loopBodyData(o, r, log, calls0, foundNonCommand, data) ==
    [out |-> Listen([tp |-> [TP_updateHotState(o, data) EXCEPT !.fullOutput = @ \o data],
                     events |-> EmitLineIf(NeedsSpinner(r, o, data), log, <<>>),
                     fed |-> calls0],
                    data),
     run |-> [r EXCEPT !.isFirstChunk = FALSE,
                       !.didOutputNonCommand = foundNonCommand,
                       !.didEmitEmptyLine = @ \/ NeedsSpinner(r, o, data)]]

\* the loop body from removeShellIntegrationSequences(data) on
TP_loopBodyEcho(o, r, log, calls0, echo) ==
    TP_loopBodyData(o, r, log, calls0, echo.foundNonCommand,
                    TP_removeShellIntegrationSequences(echo.processedData))

\* the loop body of run() for one chunk
TP_loopBody(o, r, log, calls0, chunk) ==
    TP_loopBodyEcho(o, r, log, calls0,
                    EchoData(r.didOutputNonCommand, FirstChunkData(r.isFirstChunk, chunk), r.command))

\* the variables after a turn of the loop
TPChunkDone(body, chunk) ==
    /\ tp' = body.out.tp
    /\ events' = body.out.events
    /\ fed' = body.out.fed
    /\ run' = body.run
    /\ yielded' = Append(yielded, chunk)

\* one turn of the for-await loop of run(): the stream yields a chunk
TPChunk ==
    /\ run.pc = "streaming"
    /\ tpSteps < MaxSteps
    /\ \E chunk \in stream : TPChunkDone(TP_loopBody(tp, run, events, fed, chunk), chunk)
    /\ tpSteps' = tpSteps + 1
    /\ UNCHANGED <<lineListeners, unretrieved, stream, cbVars, procVars>>

\* the end of run() with 'continue' emitted before 'completed'
TPStreamEndDone_ContinueFirst(out) ==
    /\ tp' = TP_cleanupHotState(out.tp)
    /\ events' = Emit(Emit(out.events, "continue", <<>>), "completed", <<>>)
    /\ fed' = out.fed

\* the variables after cleanupHotState(), emit("completed") and emit("continue")
TPStreamEndDone(out) ==
    /\ tp' = TP_cleanupHotState(out.tp)
    /\ events' = Emit(Emit(out.events, "completed", <<>>), "continue", <<>>)
    /\ fed' = out.fed

\* the stream ends: run() from the end of the loop to its return
TPStreamEnd ==
    /\ run.pc = "streaming"
    /\ tpSteps < MaxSteps
    /\ tpSteps' = tpSteps + 1
    /\ TPStreamEndDone(TP_emitRemainingBufferIfListening([tp |-> tp, events |-> events, fed |-> fed]))
    /\ run' = [run EXCEPT !.pc = "done"]
    /\ UNCHANGED <<lineListeners, yielded, unretrieved, stream, cbVars, procVars>>

\* the variables after the rest of continue()
TPContinueDone(out) ==
    /\ tp' = [out.tp EXCEPT !.isListening = FALSE, !.outputProcessor = CM_clear(@)]
    /\ events' = Emit(out.events, "continue", <<>>)
    /\ fed' = out.fed

\* continue(), called between two steps of run() or outside a run
TPContinue ==
    /\ tpSteps < MaxSteps
    /\ TPContinueDone(TP_emitRemainingBufferIfListening([tp |-> tp, events |-> events, fed |-> fed]))
    /\ lineListeners' = FALSE
    /\ tpSteps' = tpSteps + 1
    /\ UNCHANGED <<run, yielded, unretrieved, stream, cbVars, procVars>>

\* getUnretrievedOutput()
TPGetUnretrievedOutput ==
    /\ tpSteps < MaxSteps
    /\ unretrieved' = TP_removeLastLineArtifacts(SliceFrom(tp.fullOutput, tp.lastRetrievedIndex))
    /\ tp' = [tp EXCEPT !.lastRetrievedIndex = Len(tp.fullOutput)]
    /\ tpSteps' = tpSteps + 1
    /\ UNCHANGED <<run, lineListeners, events, fed, yielded, stream, cbVars, procVars>>

\* the timer set by updateHotState fires
TPHotTimeout ==
    /\ tp.hotTimer \in {"pending 2000", "pending 15000"}
    /\ tp' = [tp EXCEPT !.isHot = FALSE, !.hotTimer = "fired"]
    /\ UNCHANGED <<run, lineListeners, events, fed, yielded, tpSteps, unretrieved, stream,
                   cbVars, procVars>>

TPNext ==
    \/ TPRun
    \/ TPRunNoShellIntegration
    \/ TPChunk
    \/ TPStreamEnd
    \/ TPContinue
    \/ TPGetUnretrievedOutput
    \/ TPHotTimeout

SpecTP == TPInit /\ [][TPNext]_vars

\* the lines of the 'line' events emitted since the last run() began, in order
RunLines ==
    LET all == SubSeq(events, run.since + 1, Len(events))
        lines == SelectSeq(all, LAMBDA e : e.type = "line")
    IN  [i \in 1..Len(lines) |-> lines[i].line]

\* where, in the lines of this run, the truncation marker was emitted
MarkerPositions == {i \in 1..Len(RunLines) : RunLines[i] = TruncationText}

\* the processLine calls of this run that cut the buffer of the processor
OverflowCalls == {k \in 1..Len(fed) : fed[k].cut}

(* C6: during one run the line '[...output truncated...]' is emitted at most once;
   when the stream overflows the configured buffer it is emitted exactly once,
   immediately before the line whose processing triggered the first truncation,
   and at the end of the run fewer lines have been emitted than were fed. *)
C6_MarkerOncePerRun ==
    run.pc \in {"streaming", "done"} =>
        /\ Cardinality(MarkerPositions) <= 1
        /\ OverflowCalls # {} =>
              /\ Cardinality(MarkerPositions) = 1
              /\ \A i \in MarkerPositions :
                    /\ i < Len(RunLines)
                    /\ RunLines[i + 1] = fed[FirstOrZero(OverflowCalls)].res.line
              /\ run.pc = "done" => Len(RunLines) < Len(fed)

\* the 'line' events of log that a registered listener received
HeardLines(log) == SelectSeq(log, LAMBDA e : e.type = "line" /\ e.heard)

\* the partial line that continue() has to flush: the buffered text without its prompt artifacts
PartialLine == IF tp.isListening THEN TP_removeLastLineArtifacts(tp.buffer) ELSE <<>>

\* continue() flushed the partial line: it went through the processor and was emitted to
\* the listeners registered before the call, ahead of the 'continue' event
ContinueFlushed ==
    /\ Len(fed') = Len(fed) + 1
    /\ fed'[Len(fed')].line = PartialLine
    /\ SubSeq(fed', 1, Len(fed)) = fed
    /\ Len(events') = Len(events) + 2
    /\ SubSeq(events', 1, Len(events)) = events
    /\ events'[Len(events) + 1] = [type |-> "line", line |-> stripAnsi(PartialLine), heard |-> lineListeners]
    /\ events'[Len(events) + 2].type = "continue"

\* continue() had nothing to flush
ContinueNothingToFlush ==
    /\ fed' = fed
    /\ Len(events') = Len(events) + 1
    /\ SubSeq(events', 1, Len(events)) = events
    /\ events'[Len(events) + 1].type = "continue"

\* what a call of continue() does
ContinueEffect ==
    /\ IF PartialLine # <<>> THEN ContinueFlushed ELSE ContinueNothingToFlush
    /\ tp.isListening => tp'.buffer = <<>>
    /\ ~tp'.isListening
    /\ ~lineListeners'
    /\ tp'.outputProcessor = CM_new(TP_CONFIG)

\* what holds of every step taken after continue() returned
StoppedEffect ==
    /\ ~tp'.isListening
    /\ ~lineListeners'
    /\ fed' = fed \/ fed' = <<>>
    /\ HeardLines(events') = HeardLines(events)
    /\ tp'.outputProcessor = tp.outputProcessor

(* C13: continue(), between two chunks of a running stream or after the stream ended,
   first flushes the buffered partial line (it is processed and emitted when it is not
   empty), then detaches the 'line' listeners and clears the output processor; after
   it returned no line is passed to the processor or delivered to the listeners that
   were registered, in the rest of the run and in later runs on the same object. *)
C13_ContinueFlushesThenStops ==
    [][/\ TPContinue => ContinueEffect
       /\ ~tp.isListening => StoppedEffect]_vars

\* C13 witness: continue() came between the chunks 'ab' and 'Some repeated output line\n' of
\* a running stream; 'ab' was flushed to the listener and the second chunk reached nobody
C13_Witness ==
    /\ run.pc = "streaming"
    /\ ~tp.isListening
    /\ yielded = <<ChunkPartial, ChunkLong>>
    /\ Len(fed) = 1
    /\ fed[1].line = ChunkPartial
    /\ Len(HeardLines(events)) = 2
    /\ HeardLines(events)[2].line = ChunkPartial
    /\ tp.outputProcessor = CM_new(TP_CONFIG)

\* where, in the lines of this run, the empty line was emitted
SpinnerPositions == {i \in 1..Len(RunLines) : RunLines[i] = <<>>}

(* C14: in every run that emits at least one 'line' event the first emitted line is
   the empty string (the spinner placeholder), it comes before any content line, and
   the empty string is emitted exactly once in that run. *)
C14_SpinnerFirstOnce ==
    RunLines # <<>> => SpinnerPositions = {1}

(***************************************************************************)
(* SpecSplit: runs of a TerminalProcess whose stream cuts the text inside  *)
(* the command echo and inside a shell integration marker                  *)
(***************************************************************************)

ChunkCommand == <<"l", "s">>

ChunkLine == <<"a", "b", "\n">>

ChunkMarkerHead == <<"x", "]", "6">>

ChunkMarkerTail == <<"3", "3", ";", "C", "\n">>

ChunkTwoLines == <<"c", "\n", "d", "\n">>

SplitStream == {ChunkCommand, ChunkLine, ChunkMarkerHead, ChunkMarkerTail, ChunkTwoLines}

SplitInit ==
    /\ CBIdle
    /\ ProcIdle
    /\ tp = TP_new
    /\ run = [pc |-> "idle", command |-> <<>>, isFirstChunk |-> FALSE,
              didOutputNonCommand |-> FALSE, didEmitEmptyLine |-> FALSE, since |-> 0]
    /\ lineListeners = TRUE
    /\ events = <<>>
    /\ fed = <<>>
    /\ yielded = <<>>
    /\ tpSteps = 0
    /\ unretrieved = <<>>
    /\ stream = SplitStream

SplitNext ==
    \/ TPRun
    \/ TPChunk
    \/ TPStreamEnd

SpecSplit == SplitInit /\ [][SplitNext]_vars

\* the chunks of a stream put together
RECURSIVE Concat(_)
Concat(chunks) ==
    IF chunks = <<>> THEN <<>> ELSE Head(chunks) \o Concat(Tail(chunks))

\* the 'line' events of log, in order
LinesOf(log) ==
    [i \in 1..Len(SelectSeq(log, LAMBDA e : e.type = "line")) |->
        SelectSeq(log, LAMBDA e : e.type = "line")[i].line]

\* the locals of run() when its loop starts
RunStart ==
    [pc |-> "streaming", command |-> Command, isFirstChunk |-> TRUE,
     didOutputNonCommand |-> FALSE, didEmitEmptyLine |-> FALSE, since |-> 0]

\* the lines that run() emits on a new TerminalProcess whose stream yields text as one chunk
WholeRunLines(text) ==
    LinesOf(TP_emitRemainingBufferIfListening(TP_loopBody(TP_new, RunStart, <<>>, <<>>, text).out).events)

(* C15: the lines emitted by run() do not depend on how the raw text is cut into
   chunks: a run on a new TerminalProcess that received the text in several chunks,
   with no continue() in between, has emitted, at its end, the lines that a run
   receiving the same text (same command) as one chunk emits. *)
C15_RechunkingInvariant ==
    (run.pc = "done" /\ run.since = 0 /\ tp.isListening /\ yielded # <<>>) =>
        RunLines = WholeRunLines(Concat(yielded))

\* a is b with some elements left out
RECURSIVE IsSubsequence(_, _)
IsSubsequence(a, b) ==
    IF a = <<>> THEN TRUE
    ELSE IF b = <<>> THEN FALSE
    ELSE IF Head(a) = Head(b) THEN IsSubsequence(Tail(a), Tail(b))
    ELSE IsSubsequence(a, Tail(b))

\* log2 is log1 with events added at its end
Extends(log1, log2) == Len(log2) >= Len(log1) /\ SubSeq(log2, 1, Len(log1)) = log1

\* the lines of a run other than the spinner placeholder and the truncation marker
ContentLines(lines) == SelectSeq(lines, LAMBDA l : l # <<>> /\ l # TruncationText)

\* the lines given to processLine, as the processor cleans them
SanitizedLines(f) == [i \in 1..Len(f) |-> stripAnsi(f[i].line)]

\* the lines given to processLine
FedLines(f) == [i \in 1..Len(f) |-> f[i].line]

\* the complete lines of text, in their order, each without its trailing white space
AllButLast(lines) == [i \in 1..(Len(lines) - 1) |-> TrimEnd(lines[i])]

CompleteLines(text) == AllButLast(SplitLines(text))

\* the chunk after the sanitising steps of the loop of run()
SanitizedChunk(r, chunk) ==
    TP_removeShellIntegrationSequences(
        EchoData(r.didOutputNonCommand, FirstChunkData(r.isFirstChunk, chunk), r.command).processedData)

\* a turn of the loop (the stream yielded one more chunk) gives the processor the complete lines of the buffered text followed
\* by the sanitised chunk, in their order, before the next chunk is taken
ChunkInOrder ==
    (Len(yielded') = Len(yielded) + 1 /\ tp.isListening) =>
        FedLines(fed') = FedLines(fed) \o CompleteLines(tp.buffer \o SanitizedChunk(run, yielded'[Len(yielded')]))

(* C16: emission order is input order: apart from the spinner placeholder and the
   truncation marker, the lines emitted by a run are a subsequence of the sanitized
   input lines in their original order, each input line is emitted at most once, and
   all lines of a chunk are emitted before any line of the next chunk. *)
C16_EmissionOrder ==
    [][/\ Extends(events, events')
       /\ IsSubsequence(ContentLines(RunLines'), SanitizedLines(fed'))
       /\ ChunkInOrder]_vars

\* C16 witness: a chunk of two lines and then a chunk of one line were emitted in that order
C16_Witness ==
    /\ yielded = <<ChunkTwoLines, ChunkLine>>
    /\ RunLines = << <<>>, <<"c">>, <<"d">>, <<"a", "b">> >>
    /\ FedLines(fed) = << <<"c">>, <<"d">>, <<"a", "b">> >>

(***************************************************************************)
(* SpecInstall: runs of a TerminalProcess on the output of an installer,   *)
(* one line per chunk                                                      *)
(***************************************************************************)

LineInstalling == <<"I", "n", "s", "t", "a", "l", "l", "i", "n", "g", " ", "p", "a", "c", "k", "a", "g", "e", "s", ".", ".", ".">>

LineBar0 == <<"[", ".", ".", ".", ".", "]", " ", "I", "n", "s", "t", "a", "l", "l", "i", "n", "g">>

LineBar1 == <<"[", "=", ".", ".", ".", "]", " ", "I", "n", "s", "t", "a", "l", "l", "i", "n", "g">>

LineBar2 == <<"[", "=", "=", ".", ".", "]", " ", "I", "n", "s", "t", "a", "l", "l", "i", "n", "g">>

LineBar3 == <<"[", "=", "=", "=", ".", "]", " ", "I", "n", "s", "t", "a", "l", "l", "i", "n", "g">>

LineBar4 == <<"[", "=", "=", "=", "=", "]", " ", "I", "n", "s", "t", "a", "l", "l", "i", "n", "g">>

LineDone == <<"D", "o", "n", "e", "!">>

\* the lines of the installer, in the order it prints them
InstallLines == <<LineInstalling, LineBar0, LineBar1, LineBar2, LineBar3, LineBar4, LineDone>>

\* yield line + "\n"
ChunkOf(line) == line \o <<"\n">>

InstallStream == {ChunkOf(LineInstalling), ChunkOf(LineBar0), ChunkOf(LineProgress), ChunkOf(LineDone)}

InstallInit ==
    /\ CBIdle
    /\ ProcIdle
    /\ tp = TP_new
    /\ run = [pc |-> "idle", command |-> <<>>, isFirstChunk |-> FALSE,
              didOutputNonCommand |-> FALSE, didEmitEmptyLine |-> FALSE, since |-> 0]
    /\ lineListeners = TRUE
    /\ events = <<>>
    /\ fed = <<>>
    /\ yielded = <<>>
    /\ tpSteps = 0
    /\ unretrieved = <<>>
    /\ stream = InstallStream

SpecInstall == InstallInit /\ [][SplitNext]_vars

\* a is the beginning of b
IsPrefix(a, b) == Len(a) <= Len(b) /\ SubSeq(b, 1, Len(a)) = a

\* the line matches one of the known patterns of the default configuration
MatchesKnownPattern(line) ==
    \E name \in LM_DEFAULT_CONFIG.knownPatterns : PatternTest(name, line)

\* the chunks that the stream yields for the first n lines of the installer
InstallChunks(n) == [i \in 1..n |-> ChunkOf(InstallLines[i])]

\* what the listener is to receive for the lines of the installer
InstallExpected == << <<>>, LineInstalling, LineDone >>

(* C17: run() never emits a line that is not important and matches a known pattern
   (progress brackets, percentage markers, spinner glyphs, 'progress' prefix); for
   the installer lines 'Installing packages...', '[....] Installing', ..., 'Done!'
   it emits exactly '', 'Installing packages...', 'Done!', so that while the stream
   has yielded the first lines of the installer the emitted lines are a beginning of
   that sequence. *)
C17_KnownPatternsNeverEmitted ==
    /\ \A i \in 1..Len(RunLines) :
          ~isImportantLine(RunLines[i]) => ~MatchesKnownPattern(RunLines[i])
    /\ (run.since = 0 /\ yielded = InstallChunks(Len(yielded))) => IsPrefix(RunLines, InstallExpected)

(***************************************************************************)
(* SpecPattern: line-mode processors fed with progress output              *)
(***************************************************************************)

\* '[.] ' and the first spinner glyph: the npm pattern
LineNpm == <<"[", ".", "]", " ", "U+280B", " ", "a">>

\* '[75%] B': the webpack pattern
LineWebpack == <<"[", "7", "5", "%", "]", " ", "B">>

\* a spinner glyph and ' P': the spinner pattern
LineSpinner == <<"U+2819", " ", "P">>

\* 'Progress 1': the progress pattern
LineProgressWord == <<"P", "r", "o", "g", "r", "e", "s", "s", " ", "1">>

PatternFeed == {LineNpm, LineWebpack, LineSpinner, LineProgressWord, LineAB, LineProgressFail}

PatternInit ==
    /\ CBIdle
    /\ TPIdle
    /\ variant = "line"
    /\ \E config \in LMConfigs : proc = LM_new(config)
    /\ fresh = proc
    /\ calls = <<>>
    /\ cleared = FALSE
    /\ nCalls = 0
    /\ feed = PatternFeed

SpecPattern == PatternInit /\ [][LMNext]_vars

\* some pattern of the configuration matches the line
MatchesConfigured(config, line) == \E name \in config.knownPatterns : PatternTest(name, line)

\* the step is a processLine call of the line-mode processor on a line that is not
\* important and matches a configured pattern
SkippedPatternCall ==
    /\ variant = "line"
    /\ nCalls' = nCalls + 1
    /\ ~isImportantLine(calls'[Len(calls')].line)
    /\ MatchesConfigured(proc.config, calls'[Len(calls')].line)

(* C18: in the line-mode processor, processLine on a non-important line that matches
   a configured known pattern returns skip = true and leaves the retained history,
   the byte total, the set of important indices and the ring buffer of recent lines
   unchanged. *)
C18_KnownPatternFrame ==
    [][SkippedPatternCall =>
          /\ calls'[Len(calls')].res.skip
          /\ proc'.allLines = proc.allLines
          /\ proc'.totalSize = proc.totalSize
          /\ proc'.importantLines = proc.importantLines
          /\ proc'.recentLines = proc.recentLines]_vars

\* C18 witness: lines of each pattern were skipped by a processor that retains an
\* important line and a plain line
C18_Witness ==
    /\ Len(calls) = 4
    /\ calls[1].line = LineProgressFail
    /\ calls[2].line = LineAB
    /\ calls[3].line = LineSpinner
    /\ calls[3].res.skip
    /\ calls[4].line = LineProgressWord
    /\ calls[4].res.skip
    /\ proc.allLines = <<LineProgressFail, LineAB>>
    /\ proc.importantLines = {0}
    /\ proc.totalSize = 10
    /\ CB_getAll(proc.recentLines) = <<LineAB>>

\* the text of the shell integration markers
MarkerText == <<"]", "6", "3", "3">>

(* C19: no line emitted by run() contains the marker text ']633', whatever the stream
   and wherever it is cut into chunks, while the lines without marker text that the
   run frames are still emitted. *)
C19_NoMarkerTextEmitted ==
    /\ \A i \in 1..Len(RunLines) : ~Includes(RunLines[i], MarkerText)
    /\ tp.isListening =>
          \A k \in 1..Len(fed) :
              (stripAnsi(fed[k].line) # <<>> /\ ~Includes(fed[k].line, MarkerText)) =>
                  \E i \in 1..Len(RunLines) : RunLines[i] = stripAnsi(fed[k].line)

\* getRecent(n) on the buffer as it is now is what the claim says, for every n
GetRecentRight ==
    \A n \in -1..(MaxCap + 1) :
        /\ CB_getRecent(cb, n) = LastN(cbAdded, Min(Max(n, 0), cb.size))
        /\ n <= 0 => CB_getRecent(cb, n) = <<>>
        /\ n >= cb.size => CB_getRecent(cb, n) = CB_getAll(cb)

\* a getRecent(n) call returned: the buffer and its history are as before and the
\* result is the last min(n, size) added items
GetRecentReturned ==
    /\ cb' = cb
    /\ cbAdded' = cbAdded
    /\ cbResult'.items = LastN(cbAdded, Min(Max(cbResult'.n, 0), cb.size))

(* C20: getRecent(n) returns the last min(n, currentSize) added items, oldest first:
   the empty list for every n <= 0, the same as getAll() for every n >= currentSize,
   and it does not change the state of the buffer. *)
C20_GetRecent ==
    /\ []GetRecentRight
    /\ [][cbResult' # cbResult => GetRecentReturned]_vars

\* C20 witness: getRecent(2) on a buffer of capacity 3 that has wrapped returned the two
\* newest items, which differ, oldest first
C20_Witness ==
    /\ cb.maxSize = 3
    /\ cb.size = 3
    /\ Len(cbAdded) > cb.maxSize
    /\ cb.head # 0
    /\ cbResult.n = 2
    /\ cbResult.items = LastN(cbAdded, 2)
    /\ cbResult.items = CB_getRecent(cb, 2)
    /\ cbResult.items[1] # cbResult.items[2]

\* the size and the write index are inside the capacity
CBInRange ==
    /\ 0 <= cb.size
    /\ cb.size <= cb.maxSize
    /\ 0 <= cb.head
    /\ cb.head < cb.maxSize

\* what a step does to the size: an add (the history grew by one) adds one until the
\* capacity is reached and then leaves the size alone; the capacity never changes
CBSizeStep ==
    /\ cb'.maxSize = cb.maxSize
    /\ Len(cbAdded') = Len(cbAdded) + 1 =>
          /\ cb.size < cb.maxSize => cb'.size = cb.size + 1
          /\ cb.size = cb.maxSize => cb'.size = cb.maxSize

(* C21: in every reachable state of a CircularBuffer 0 <= currentSize <= maxSize and
   0 <= head < maxSize; currentSize grows by one per add until it reaches maxSize and
   then stays at maxSize, and maxSize never changes. *)
C21_SizeWithinCapacity ==
    /\ []CBInRange
    /\ [][CBSizeStep]_vars

\* C21 witness: a full buffer of capacity 2 that took two more adds and is still of size 2
C21_Witness ==
    /\ cb.maxSize = 2
    /\ cb.size = 2
    /\ Len(cbAdded) = 4
    /\ cb.head = 0

(***************************************************************************)
(* SpecCtor: callers that construct CircularBuffers of any integer         *)
(* capacity and use the ones they get                                      *)
(***************************************************************************)

\* the caller holds no buffer
NoBuffer == <<>>

\* a constructor that also refuses the capacity 1
CB_constructor_RejectsOne(maxSize) ==
    IF maxSize <= 1
    THEN [threw |-> TRUE, message |-> "Buffer size must be greater than 0", buffer |-> NoBuffer]
    ELSE [threw |-> FALSE, message |-> "", buffer |-> CB_new(maxSize)]

\* new CircularBuffer(maxSize): the constructor throws or the caller gets the buffer
CB_constructor(maxSize) ==
    IF maxSize <= 0
    THEN [threw |-> TRUE, message |-> "Buffer size must be greater than 0", buffer |-> NoBuffer]
    ELSE [threw |-> FALSE, message |-> "", buffer |-> CB_new(maxSize)]

CtorInit ==
    /\ cb = NoBuffer
    /\ cbAdded = <<>>
    /\ cbResult = [op |-> "none", n |-> 0, threw |-> FALSE]
    /\ ProcIdle
    /\ TPIdle

\* what the caller holds after "cb = new CircularBuffer(n)" with that outcome
CBConstructDone(n, outcome) ==
    /\ cbResult' = [op |-> "new", n |-> n, threw |-> outcome.threw]
    /\ cb' = IF outcome.threw THEN cb ELSE outcome.buffer
    /\ cbAdded' = IF outcome.threw THEN cbAdded ELSE <<>>

CBConstruct ==
    /\ \E n \in -1..MaxCap : CBConstructDone(n, CB_constructor(n))
    /\ UNCHANGED <<procVars, tpVars>>

CtorNext ==
    \/ CBConstruct
    \/ cb # NoBuffer /\ CBAdd
    \/ cb # NoBuffer /\ CBGetRecent
    \/ cb # NoBuffer /\ CBClear

SpecCtor == CtorInit /\ [][CtorNext]_vars

\* the value is the outcome of a constructor call
IsOutcome(result) == "threw" \in DOMAIN result

\* the step is a constructor call with a new outcome
IsConstruct == IsOutcome(cbResult') /\ cbResult' # cbResult

\* a constructor call with capacity <= 0 throws and the caller gets no buffer from it;
\* with capacity > 0 it returns an empty buffer of that capacity
ConstructOutcome ==
    /\ cbResult'.threw <=> cbResult'.n <= 0
    /\ cbResult'.threw => cb' = cb
    /\ ~cbResult'.threw => (cb' # NoBuffer /\ cb'.maxSize = cbResult'.n /\ cb'.size = 0 /\ CB_getAll(cb') = <<>>)

\* add, getRecent, getAll and clear completed: the buffer is a buffer within its capacity
\* and the lines returned are lines that were added
OperationCompleted ==
    /\ cb' # NoBuffer
    /\ 0 <= cb'.size /\ cb'.size <= cb'.maxSize
    /\ 0 <= cb'.head /\ cb'.head < cb'.maxSize
    /\ \A i \in 1..Len(CB_getAll(cb')) : CB_getAll(cb')[i] \in CBItems
    /\ ~IsOutcome(cbResult') => \A i \in 1..Len(cbResult'.items) : cbResult'.items[i] \in CBItems

(* C22: constructing a CircularBuffer with capacity <= 0 fails with an error and
   yields no buffer; every capacity > 0 succeeds, and no other operation (add,
   getRecent, getAll, clear) ever fails. *)
C22_OnlyConstructorFails ==
    [][IF IsConstruct THEN ConstructOutcome ELSE OperationCompleted]_vars

\* C22 witness: a buffer of capacity 2 was built and has wrapped, then new CircularBuffer(0)
\* threw and the caller still holds the buffer
C22_Witness ==
    /\ cbResult = [op |-> "new", n |-> 0, threw |-> TRUE]
    /\ cb # NoBuffer
    /\ cb.maxSize = 2
    /\ Len(cbAdded) = 3

\* the buffer b after add(line) for each line of lines, in order
RECURSIVE AddAll(_, _)
AddAll(b, lines) ==
    IF lines = <<>> THEN b ELSE AddAll(CB_add(b, Head(lines)), Tail(lines))

\* the buffer answers getCurrentSize(), getAll() and getRecent(n) as the buffer other does
SameAnswers(b, other) ==
    /\ b.size = other.size
    /\ b.maxSize = other.maxSize
    /\ CB_getAll(b) = CB_getAll(other)
    /\ \A n \in -1..(MaxCap + 1) : CB_getRecent(b, n) = CB_getRecent(other, n)

\* the step is a clear() of a buffer that held lines
IsClearOfUsed == cbAdded # <<>> /\ cbAdded' = <<>>

(* C23: clear() resets the buffer to empty with the same capacity: after clear()
   getAll() is empty and currentSize is 0, and any adds that follow give the
   getAll() and getRecent() results that the same adds give on a newly constructed
   buffer of that capacity, whatever was added before the clear. *)
C23_ClearedAnswersAsNew ==
    /\ []SameAnswers(cb, AddAll(CB_new(cb.maxSize), cbAdded))
    /\ [][IsClearOfUsed => (CB_getAll(cb') = <<>> /\ cb'.size = 0 /\ cb'.maxSize = cb.maxSize)]_vars

\* C23 witness: getRecent(3) returned three lines, the buffer was cleared after that and
\* took two adds, which getAll() returns
C23_Witness ==
    /\ cb.maxSize = 3
    /\ Len(cbResult.items) = 3
    /\ \E i, j \in 1..3 : cbResult.items[i] # cbResult.items[j]
    /\ Len(cbAdded) = 2
    /\ cbAdded[1] # cbAdded[2]
    /\ CB_getAll(cb) = cbAdded

\* the step is a processLine call of the line-mode processor
IsLMCall == variant = "line" /\ nCalls' = nCalls + 1

\* the line of the processLine call that the step made
CalledLine == calls'[Len(calls')].line

\* with the line of the call counted, the byte total is over maxBufferSize while the
\* lines are no more than the keep windows hold
OverBudgetFewLines ==
    /\ proc.totalSize + Len(CalledLine) > proc.config.maxBufferSize
    /\ Len(proc.allLines) + 1 <= proc.config.keepFirstLines + proc.config.keepLastLines

\* the call removed nothing: the history is the previous history and the new line, and
\* the set of important indices is as before
NothingRemoved ==
    /\ proc'.allLines = Append(proc.allLines, CalledLine)
    /\ proc'.importantLines = proc.importantLines

\* the call accepted its line
Accepted == ~calls'[Len(calls')].res.skip

\* C24 as stated: in line mode, whenever processLine takes a line and the byte total
\* exceeds maxBufferSize while the retained lines are at most keepFirstLines +
\* keepLastLines, it leaves the previous history plus the new line and the same set
\* of important indices.
C24_FewLinesNoTruncation_Stated ==
    [][(IsLMCall /\ Accepted /\ OverBudgetFewLines) => NothingRemoved]_vars

(* C24 amended: in line mode, when processLine accepts a line that is not important
   and the byte total then exceeds maxBufferSize while the retained lines are at
   most keepFirstLines + keepLastLines, nothing is removed: the history is the
   previous history plus the new line, the set of important indices is unchanged,
   the byte total is the previous total plus the length of the line, and the result
   is that line with no truncation flag. *)
C24_FewLinesNoTruncation ==
    [][(IsLMCall /\ Accepted /\ OverBudgetFewLines /\ ~isImportantLine(CalledLine)) =>
          /\ NothingRemoved
          /\ proc'.totalSize = proc.totalSize + Len(CalledLine)
          /\ calls'[Len(calls')].res = Result(FALSE, CalledLine, "undefined")]_vars

\* C24 witness: with maxBufferSize 7 and windows of one line each, '[1%]FAIL' and then
\* 'ab' are both retained although the total is 10
C24_Witness ==
    /\ variant = "line"
    /\ proc.config.maxBufferSize = 7
    /\ proc.config.keepFirstLines + proc.config.keepLastLines = 2
    /\ Len(calls) = 2
    /\ calls[2].line = LineAB
    /\ ~calls[2].res.skip
    /\ proc.allLines = <<LineProgressFail, LineAB>>
    /\ proc.importantLines = {0}
    /\ proc.totalSize = 10

(***************************************************************************)
(* SpecTrunc: line-mode processors with a tail window of two lines         *)
(***************************************************************************)

TruncFeed == {LineProgressFail, LineFail, LineAnsiFail, LineAB, LineAC}

\* maxBufferSize 5 with windows 1 and 2, maxBufferSize 3 with windows 0 and 2
TruncConfigs ==
    { [LM_DEFAULT_CONFIG EXCEPT !.recentLinesSize = 3,
                                !.maxBufferSize = 5, !.keepFirstLines = 1, !.keepLastLines = 2],
      [LM_DEFAULT_CONFIG EXCEPT !.recentLinesSize = 3,
                                !.maxBufferSize = 3, !.keepFirstLines = 0, !.keepLastLines = 2] }

TruncInit ==
    /\ CBIdle
    /\ TPIdle
    /\ variant = "line"
    /\ \E config \in TruncConfigs : proc = LM_new(config)
    /\ fresh = proc
    /\ calls = <<>>
    /\ cleared = FALSE
    /\ nCalls = 0
    /\ feed = TruncFeed

SpecTrunc == TruncInit /\ [][LMNext]_vars

\* the 0-based indices of the lines that a truncation keeps: marked important and inside
\* the head window or the tail window
KeptIndices(count, marked, keepFirstLines, keepLastLines) ==
    {i \in 0..(count - 1) :
        /\ i \in marked
        /\ i < keepFirstLines \/ i >= Max(keepFirstLines, count - keepLastLines)}

\* the lines of all at the indices idx, each once, in the order of the indices
LinesAt(all, idx) ==
    [j \in 1..Cardinality(idx) |->
        all[(CHOOSE i \in idx : Cardinality({k \in idx : k < i}) = j - 1) + 1]]

\* processLine accepted a line that is not important, and with it the byte total is over
\* maxBufferSize and the lines are more than the keep windows hold
OverBudgetManyLines ==
    /\ IsLMCall
    /\ Accepted
    /\ ~isImportantLine(CalledLine)
    /\ proc.totalSize + Len(CalledLine) > proc.config.maxBufferSize
    /\ Len(proc.allLines) + 1 > proc.config.keepFirstLines + proc.config.keepLastLines

(* C25: in line mode, when the byte total exceeds maxBufferSize and the line count
   is > keepFirstLines + keepLastLines, the history after the truncation is exactly
   the lines marked important whose index is < keepFirstLines followed by those
   whose index is >= max(keepFirstLines, count - keepLastLines), in their original
   order and none twice; its length is <= keepFirstLines + keepLastLines and the
   set of important indices is empty afterwards. *)
C25_TruncationKeepsMarkedInWindows ==
    [][OverBudgetManyLines =>
          /\ calls'[Len(calls')].cut
          /\ proc'.allLines = LinesAt(Append(proc.allLines, CalledLine),
                                      KeptIndices(Len(proc.allLines) + 1, proc.importantLines,
                                                  proc.config.keepFirstLines, proc.config.keepLastLines))
          /\ Len(proc'.allLines) <= proc.config.keepFirstLines + proc.config.keepLastLines
          /\ proc'.importantLines = {}]_vars

\* C25 witness: with a head window of one line and a tail window of two, the history
\* '[1%]FAIL', 'fail', ESC'[mfail', 'ab' was cut down to the important lines at the
\* indices 0 and 2; the one at index 1 is in neither window
C25_Witness ==
    /\ variant = "line"
    /\ proc.config.keepFirstLines = 1
    /\ proc.config.keepLastLines = 2
    /\ Len(calls) = 4
    /\ calls[1].line = LineProgressFail
    /\ calls[2].line = LineFail
    /\ calls[3].line = LineAnsiFail
    /\ calls[4].line = LineAB
    /\ calls[4].cut
    /\ proc.allLines = <<LineProgressFail, LineAnsiFail>>
    /\ proc.importantLines = {}

(***************************************************************************)
(* SpecSlice: character-mode processors with a keep window of zero         *)
(***************************************************************************)

\* keepLastChars 0 and keepFirstChars 0
SliceConfigs ==
    { [CM_DEFAULT_CONFIG EXCEPT !.maxBufferSize = 4, !.keepFirstChars = 2, !.keepLastChars = 0],
      [CM_DEFAULT_CONFIG EXCEPT !.maxBufferSize = 8, !.keepFirstChars = 0, !.keepLastChars = 3] }

SliceFeed == {LineAB, LineAC, LineFail}

SliceInit ==
    /\ CBIdle
    /\ TPIdle
    /\ variant = "char"
    /\ \E config \in SliceConfigs : proc = CM_new(config)
    /\ fresh = proc
    /\ calls = <<>>
    /\ cleared = FALSE
    /\ nCalls = 0
    /\ feed = SliceFeed

SpecSlice == SliceInit /\ [][CMNext]_vars

\* where the text of the truncation marker occurs in a buffer
MarkerOccurrences(buffer) == {i \in 1..Len(buffer) : OccursAt(buffer, TruncationText, i)}

\* the buffer of the character-mode processor with the line of the call added
BufferWithLine == proc.buffer \o stripAnsi(CalledLine) \o <<"\n">>

\* the step is a processLine call of the character-mode processor that truncated
IsCMTruncation == variant = "char" /\ nCalls' = nCalls + 1 /\ calls'[Len(calls')].cut

(* C26: in character mode, for every configuration with keepFirstChars >= 0 and
   keepLastChars >= 0, a truncation replaces the buffer by the first keepFirstChars
   characters of the old buffer, the marker '\n[...output truncated...]\n' once, and
   the last keepLastChars characters of the old buffer; after any sequence of
   processLine calls on input without marker text the buffer holds the marker text
   at most once. *)
C26_TruncationSplicesOneMarker ==
    /\ [](variant = "char" => Cardinality(MarkerOccurrences(proc.buffer)) <= 1)
    /\ [][IsCMTruncation =>
             proc'.buffer = SubSeq(BufferWithLine, 1, proc.config.keepFirstChars)
                            \o TruncationMarker
                            \o LastN(BufferWithLine, proc.config.keepLastChars)]_vars

(***************************************************************************)
(* SpecDedup: a line-mode processor whose ring holds more than ten lines   *)
(***************************************************************************)

\* number of calls after the warm-up
MaxTail == 3

DedupConfig ==
    [LM_DEFAULT_CONFIG EXCEPT !.similarityThreshold = Rat(1, 2), !.recentLinesSize = 12]

\* eleven lines no two of which are similar: 'ac', then 'dd', 'ee', ... 'mm'
WarmLines ==
    <<LineAC>> \o [i \in 1..10 |->
                     LET c == <<"d", "e", "f", "g", "h", "i", "j", "k", "l", "m">>[i]
                     IN  <<c, c>>]

LineDE == <<"d", "e">>

LineZZ == <<"z", "z">>

DedupFeed == {LineAB, LineDE, LineZZ, LineProgress, LineFail}

DedupInit ==
    /\ CBIdle
    /\ TPIdle
    /\ variant = "line"
    /\ proc = LM_new(DedupConfig)
    /\ fresh = proc
    /\ calls = <<>>
    /\ cleared = FALSE
    /\ nCalls = 0
    /\ feed = DedupFeed

\* the caller feeds the warm-up lines in order, then lines of the feed
DedupProcessLine ==
    /\ variant = "line"
    /\ Len(calls) < Len(WarmLines) + MaxTail
    /\ \E line \in (IF Len(calls) < Len(WarmLines) THEN {WarmLines[Len(calls) + 1]} ELSE feed) :
          LET r == LM_processLine(proc, line)
          IN  /\ proc' = r.proc
              /\ fresh' = r.proc
              /\ calls' = Append(calls, [line |-> line, res |-> r.res, cut |-> r.cut, freshRes |-> r.res])
    /\ nCalls' = nCalls
    /\ UNCHANGED <<variant, cleared, feed, cbVars, tpVars>>

DedupNext == DedupProcessLine

SpecDedup == DedupInit /\ [][DedupNext]_vars

\* the step is a processLine call of the line-mode processor
IsLMProcessLine == variant = "line" /\ Len(calls') = Len(calls) + 1

\* the line of the call is plain and its text has no cached dedup answer
FirstPlainEvaluation ==
    /\ ~isImportantLine(CalledLine)
    /\ ~\E name \in proc.config.knownPatterns : PatternTest(name, CalledLine)
    /\ <<"dedup", CalledLine>> \notin DOMAIN proc.patternCache

\* the ring's entries, oldest first, and the last ten of them
RingEntries(p) == CB_getAll(p.recentLines)

LastTen(p) == LastN(RingEntries(p), 10)

SimilarTo(p, line, entries) ==
    \E i \in 1..Len(entries) :
       RatGeq(calculateSimilarity(line, entries[i]), p.config.similarityThreshold)

(* C27: a plain line (not important, not matching a known pattern) whose text is
   evaluated for the first time is skipped if and only if its similarity to at
   least one of the last min(10, currentSize) entries of the ring is at least
   similarityThreshold; entries older than the last ten are never consulted, and
   a kept plain line is appended to the ring. *)
C27_DedupAgainstLastTen ==
    [][IsLMProcessLine /\ FirstPlainEvaluation =>
          /\ calls'[Len(calls')].res.skip <=> SimilarTo(proc, CalledLine, LastTen(proc))
          /\ ~calls'[Len(calls')].res.skip =>
                RingEntries(proc') = LastN(Append(RingEntries(proc), CalledLine),
                                           proc.config.recentLinesSize)]_vars

\* 'ab' was kept although the ring held the similar 'ac', older than its last ten entries
C27_Witness ==
    /\ variant = "line"
    /\ Len(calls) > Len(WarmLines)
    /\ calls[Len(calls)].line = LineAB
    /\ ~calls[Len(calls)].res.skip
    /\ Len(RingEntries(proc)) > 10
    /\ SimilarTo(proc, LineAB, SubSeq(RingEntries(proc), 1, 1))

(***************************************************************************)
(* SpecLev: calculateSimilarity and levenshteinDistance on bounded strings *)
(***************************************************************************)

MaxLen == 3

LevAlphabet == {"a", "b"}

\* every string over the alphabet of at most n characters
RECURSIVE StringsUpTo(_)
StringsUpTo(n) ==
    IF n = 0 THEN {<<>>}
    ELSE LET shorter == StringsUpTo(n - 1)
         IN  shorter \cup {Append(s, c) : s \in shorter, c \in LevAlphabet}

LevInit ==
    /\ CBIdle
    /\ TPIdle
    /\ variant = "line"
    /\ proc = LM_new(LM_DEFAULT_CONFIG)
    /\ fresh = proc
    /\ calls = <<>>
    /\ cleared = FALSE
    /\ nCalls = 0
    /\ feed = StringsUpTo(MaxLen)

\* the processor evaluates calculateSimilarity(a, b), calculateSimilarity(b, a) and
\* levenshteinDistance(a, b) once; calls holds the evaluation
SimilarityCall ==
    /\ variant = "line"
    /\ calls = <<>>
    /\ \E a \in feed, b \in feed :
          calls' = << [a |-> a, b |-> b,
                       distance |-> levenshteinDistance(a, b),
                       similarity |-> calculateSimilarity(a, b),
                       swapped |-> calculateSimilarity(b, a)] >>
    /\ UNCHANGED <<variant, proc, fresh, cleared, nCalls, feed, cbVars, tpVars>>

LevNext == SimilarityCall

SpecLev == LevInit /\ [][LevNext]_vars

\* the strings one insertion, deletion or substitution away from s
OneEdit(s) ==
    {SubSeq(s, 1, i - 1) \o SubSeq(s, i + 1, Len(s)) : i \in 1..Len(s)}
    \cup {SubSeq(s, 1, i - 1) \o <<c>> \o SubSeq(s, i + 1, Len(s)) : i \in 1..Len(s), c \in LevAlphabet}
    \cup {SubSeq(s, 1, i) \o <<c>> \o SubSeq(s, i + 1, Len(s)) : i \in 0..Len(s), c \in LevAlphabet}

\* the strings at most k edits away from a string of the set
RECURSIVE WithinEdits(_, _)
WithinEdits(set, k) ==
    IF k = 0 THEN set
    ELSE WithinEdits(set \cup UNION {OneEdit(s) : s \in set}, k - 1)

\* the minimum number of single-character insertions, deletions and substitutions
EditDistance(a, b) ==
    CHOOSE k \in 0..Max(Len(a), Len(b)) :
        /\ b \in WithinEdits({a}, k)
        /\ \A j \in 0..(k - 1) : b \notin WithinEdits({a}, j)

(* C28: levenshteinDistance(a, b) is the standard edit distance (the minimum
   number of single-character insertions, deletions and substitutions) for all
   strings over a bounded alphabet and length; calculateSimilarity is symmetric,
   lies in [0, 1], is 1 exactly when a = b, and is 0 when exactly one argument
   is empty. *)
C28_EditDistanceAndSimilarity ==
    \A i \in 1..Len(calls) :
        LET call == calls[i]
        IN  /\ call.distance = EditDistance(call.a, call.b)
            /\ call.similarity = call.swapped
            /\ call.similarity.den > 0
            /\ 0 <= call.similarity.num /\ call.similarity.num <= call.similarity.den
            /\ call.similarity.num = call.similarity.den <=> call.a = call.b
            /\ (call.a = <<>>) # (call.b = <<>>) => call.similarity.num = 0

\* 'ab' against 'ba': two substitutions, similarity 0
C28_Witness ==
    /\ Len(calls) = 1
    /\ "distance" \in DOMAIN calls[1]
    /\ calls[1].a = LineAB
    /\ calls[1].b = <<"b", "a">>
    /\ calls[1].distance = 2
    /\ calls[1].similarity.num = 0

\* the lines from the first one whose trimmed text is not contained in the command
RECURSIVE DropLeadingEcho(_, _)
DropLeadingEcho(lines, command) ==
    IF lines = <<>> THEN <<>>
    ELSE IF Includes(command, Trim(Head(lines))) THEN DropLeadingEcho(Tail(lines), command)
    ELSE lines

\* the step is a turn of the loop of run()
IsChunkStep == Len(yielded') = Len(yielded) + 1

\* the lines of the chunk of the step as echo suppression sees them
ChunkLines == SplitLines(FirstChunkData(run.isFirstChunk, yielded'[Len(yielded')]))

\* what the step appends to fullOutput when echo suppression lets lines through
Appended(lines) == TP_removeShellIntegrationSequences(IF lines = <<>> THEN <<>> ELSE JoinLines(lines))

(* C29: command-echo suppression is a one-way latch: before the first line that is
   not contained in the command text has been seen, every leading line contained in
   the command text is dropped; once such a line has been seen in any chunk, no line
   of the rest of that chunk or of any later chunk is dropped by echo suppression,
   even if it is a substring of the command. *)
C29_EchoLatch ==
    [][/\ (run.pc = "streaming" /\ run'.pc = "streaming" /\ run.didOutputNonCommand)
             => run'.didOutputNonCommand
       /\ (IsChunkStep /\ run.didOutputNonCommand)
             => tp'.fullOutput = tp.fullOutput \o Appended(ChunkLines)
       /\ (IsChunkStep /\ ~run.didOutputNonCommand)
             => /\ tp'.fullOutput = tp.fullOutput \o Appended(DropLeadingEcho(ChunkLines, run.command))
                /\ run'.didOutputNonCommand = (DropLeadingEcho(ChunkLines, run.command) # <<>>)]_vars

\* the echo 'ls' was dropped before the first other line and kept after it
C29_Witness ==
    /\ yielded = <<ChunkCommand, ChunkTwoLines, ChunkCommand>>
    /\ run.didOutputNonCommand
    /\ tp.fullOutput = ChunkTwoLines \o ChunkCommand

(***************************************************************************)
(* SpecFlush: streams that end in a shell prompt                           *)
(***************************************************************************)

ChunkPrompt == <<"$", " ">>

ChunkTailPrompt == <<"c", "d", "%", " ">>

ChunkColor == <<"ESC", "[", "m">>

FlushStream == {ChunkLine, ChunkPrompt, ChunkTailPrompt, ChunkColor}

FlushInit ==
    /\ CBIdle
    /\ ProcIdle
    /\ tp = TP_new
    /\ run = [pc |-> "idle", command |-> <<>>, isFirstChunk |-> FALSE,
              didOutputNonCommand |-> FALSE, didEmitEmptyLine |-> FALSE, since |-> 0]
    /\ lineListeners = TRUE
    /\ events = <<>>
    /\ fed = <<>>
    /\ yielded = <<>>
    /\ tpSteps = 0
    /\ unretrieved = <<>>
    /\ stream = FlushStream

FlushNext ==
    \/ TPRun
    \/ TPChunk
    \/ TPStreamEnd
    \/ TPContinue

SpecFlush == FlushInit /\ [][FlushNext]_vars

\* the step is the end of the stream of a run
IsStreamEnd == run.pc = "streaming" /\ run'.pc = "done"

\* s without its last character when that is a prompt character
DropOnePrompt(s) ==
    IF s # <<>> /\ s[Len(s)] \in PromptArtifacts THEN SubSeq(s, 1, Len(s) - 1) ELSE s

\* the tail buffer without trailing white space, one prompt character and white space
FinalLine(buffer) == TrimEnd(DropOnePrompt(TrimEnd(buffer)))

\* the step made exactly one processLine call, with the final line
FinalLineProcessed ==
    /\ Len(fed') = Len(fed) + 1
    /\ SubSeq(fed', 1, Len(fed)) = fed
    /\ fed'[Len(fed')].line = FinalLine(tp.buffer)

\* the step emitted the line of the processor's result, after the truncation text at most
FinalLineEmitted ==
    /\ Len(RunLines') \in {Len(RunLines) + 1, Len(RunLines) + 2}
    /\ SubSeq(RunLines', 1, Len(RunLines)) = RunLines
    /\ RunLines'[Len(RunLines')] = fed'[Len(fed')].res.line
    /\ Len(RunLines') = Len(RunLines) + 2 => RunLines'[Len(RunLines) + 1] = TruncationText

NothingEmitted == RunLines' = RunLines

\* C30 as stated: every non-empty tail buffer is processed as one final line, and the
\* line is emitted unless the processor skips it.
C30_FinalFlush_Stated ==
    [][IsStreamEnd =>
          /\ (tp.isListening /\ tp.buffer # <<>>) =>
                /\ tp'.buffer = <<>>
                /\ IF FinalLineProcessed
                   THEN IF ~fed'[Len(fed')].res.skip THEN FinalLineEmitted ELSE NothingEmitted
                   ELSE FALSE
          /\ tp.buffer = <<>> => (NothingEmitted /\ fed' = fed)]_vars

(* C30: at the end of the stream, if the process is still listening and the tail
   buffer is not empty, the buffer loses trailing white space and one trailing
   prompt character (%, $, # or >); what remains, if anything, is processed as
   exactly one final line, which is emitted if the processor does not skip it and
   its cleaned text is not empty; the tail buffer is empty afterwards. If the tail
   buffer is empty, or nothing remains of it, nothing is processed or emitted. *)
C30_FinalFlush ==
    [][IsStreamEnd =>
          /\ (tp.isListening /\ tp.buffer # <<>>) =>
                /\ tp'.buffer = <<>>
                /\ IF FinalLine(tp.buffer) = <<>>
                   THEN NothingEmitted /\ fed' = fed
                   ELSE /\ FinalLineProcessed
                        /\ IF ~fed'[Len(fed')].res.skip /\ fed'[Len(fed')].res.line # <<>>
                           THEN FinalLineEmitted
                           ELSE NothingEmitted
          /\ tp.buffer = <<>> => (NothingEmitted /\ fed' = fed)]_vars

\* the stream ended with the tail 'cd% $ ': 'cd%' was processed and emitted as the last line
C30_Witness ==
    /\ run.pc = "done"
    /\ Len(yielded) >= 2
    /\ yielded[Len(yielded) - 1] = ChunkTailPrompt
    /\ yielded[Len(yielded)] = ChunkPrompt
    /\ tp.buffer = <<>>
    /\ fed # <<>>
    /\ fed[Len(fed)].line = <<"c", "d", "%">>
    /\ RunLines # <<>>
    /\ RunLines[Len(RunLines)] = <<"c", "d", "%">>

\* the line a call must hand back: the line passed in, ANSI codes stripped in character mode
PassedLine(call) == IF variant = "char" THEN stripAnsi(call.line) ELSE call.line

(* C31: whenever processLine returns skip = false, the returned line is the line
   that was passed in (after ANSI stripping in character mode), in every reachable
   state, calls that trigger a truncation included; it is never undefined and never
   a different, earlier line. *)
C31_ReturnsPassedLine ==
    variant \in {"line", "char"} =>
        \A i \in 1..Len(calls) : ~calls[i].res.skip => calls[i].res.line = PassedLine(calls[i])

(***************************************************************************)
(* SpecFrame: chunks with white space before a newline and partial lines   *)
(***************************************************************************)

ChunkSpaced == <<"c", " ", "\n", "d">>

FrameStream == {ChunkPartial, ChunkSpaced, ChunkTwoLines}

FrameInit ==
    /\ CBIdle
    /\ ProcIdle
    /\ tp = TP_new
    /\ run = [pc |-> "idle", command |-> <<>>, isFirstChunk |-> FALSE,
              didOutputNonCommand |-> FALSE, didEmitEmptyLine |-> FALSE, since |-> 0]
    /\ lineListeners = TRUE
    /\ events = <<>>
    /\ fed = <<>>
    /\ yielded = <<>>
    /\ tpSteps = 0
    /\ unretrieved = <<>>
    /\ stream = FrameStream

SpecFrame == FrameInit /\ [][FlushNext]_vars

\* the text after the last newline of text
AfterLastNewline(text) ==
    SubSeq(text, LastOrZero({i \in 1..Len(text) : text[i] = "\n"}) + 1, Len(text))

\* emitIfEol framed text correctly: its complete lines went to the processor, the rest stays
Framed(text) ==
    /\ FedLines(fed') = FedLines(fed) \o CompleteLines(text)
    /\ tp'.buffer = AfterLastNewline(text)

(* C32: framing of every chunk terminates and leaves the tail buffer free of
   newlines: after emitIfEol returns, every complete line of buffer + chunk has been
   passed to the processor exactly once, in order, with trailing white space
   trimmed, and the tail buffer holds exactly the text after the last newline,
   which is carried over and put in front of the next chunk. *)
C32_Framing ==
    /\ [](\A i \in 1..Len(tp.buffer) : tp.buffer[i] # "\n")
    /\ [][(IsChunkStep /\ tp.isListening) =>
             Framed(tp.buffer \o SanitizedChunk(run, yielded'[Len(yielded')]))]_vars

\* 'ab' was carried over and put in front of 'c \nd': the line 'abc' was processed, 'd' is kept
C32_Witness ==
    /\ Len(yielded) >= 3
    /\ yielded[Len(yielded) - 1] = ChunkPartial
    /\ yielded[Len(yielded)] = ChunkSpaced
    /\ tp.isListening
    /\ tp.buffer = <<"d">>
    /\ fed # <<>>
    /\ fed[Len(fed)].line = <<"a", "b", "c">>

\* the types of the events emitted since the last run() began, in order
RunTypes == [i \in 1..(Len(events) - run.since) |-> events[run.since + i].type]

\* where, in the events of this run, 'completed' was emitted
CompletedPositions == {i \in 1..Len(RunTypes) : RunTypes[i] = "completed"}

\* a run that is over emitted 'completed' once, 'continue' right after it and no line later;
\* without shell integration it emitted 'completed', 'continue', 'no_shell_integration' and no line
RunOrder ==
    /\ run.pc = "streaming" => CompletedPositions = {}
    /\ run.pc = "done" =>
          /\ Cardinality(CompletedPositions) = 1
          /\ \A i \in CompletedPositions :
                /\ i < Len(RunTypes)
                /\ RunTypes[i + 1] = "continue"
                /\ \A j \in (i + 1)..Len(RunTypes) : RunTypes[j] # "line"
          /\ (\E i \in 1..Len(RunTypes) : RunTypes[i] = "no_shell_integration") =>
                /\ SubSeq(RunTypes, 1, 3) = <<"completed", "continue", "no_shell_integration">>
                /\ \A j \in 1..Len(RunTypes) : RunTypes[j] # "line"

\* a run never goes back: streaming begins only with a new run, and ends only in done
PcForward ==
    /\ run'.pc = "idle" => run.pc = "idle"
    /\ run.pc = "streaming" => run'.pc \in {"streaming", "done"}
    /\ (run.pc # "streaming" /\ run'.pc = "streaming") => (run'.since = Len(events) /\ yielded' = <<>>)

\* the step is run() on a terminal without shell integration
IsNoShellRun == run.pc # "streaming" /\ run'.pc = "done" /\ run' # run

\* the types of the events a step added
AddedTypes == [i \in 1..(Len(events') - Len(events)) |-> events'[Len(events) + i].type]

\* the end of the stream: the lines of the final flush, then 'completed', then 'continue'
EndOfStreamEvents ==
    /\ Extends(events, events')
    /\ Len(AddedTypes) >= 2
    /\ SubSeq(AddedTypes, Len(AddedTypes) - 1, Len(AddedTypes)) = <<"completed", "continue">>
    /\ \A i \in 1..(Len(AddedTypes) - 2) : AddedTypes[i] = "line"
    /\ tp.isListening => tp'.buffer = <<>>

(* C33: a run follows INIT -> STREAMING -> DRAINING -> DONE without going back: with
   shell integration 'completed' is emitted exactly once, after the final buffer
   flush and after every 'line' event of that run, and is immediately followed by
   'continue'; without shell integration no 'line' event is emitted and the events
   are 'completed', 'continue', 'no_shell_integration' in that order. *)
C33_RunLifecycle ==
    /\ []RunOrder
    /\ [][/\ PcForward
          /\ IsStreamEnd => EndOfStreamEvents
          /\ IsNoShellRun =>
                (Extends(events, events')
                 /\ AddedTypes = <<"completed", "continue", "no_shell_integration">>)]_vars

\* a run with shell integration ended: the spinner line, the flushed 'ab', 'completed', 'continue'
C33_Witness ==
    /\ run.pc = "done"
    /\ yielded = <<ChunkPartial>>
    /\ RunTypes = <<"line", "line", "completed", "continue">>
    /\ RunLines = << <<>>, ChunkPartial >>

====
